---- MODULE Spec2Model ----
(***************************************************************************)
(* Model of the job-application tracker backend: the token verifier        *)
(* (Auth0Service / Auth0JWKSProvider), the result processor                *)
(* (JobResultProcessor), the search orchestration (JobSearchService), the  *)
(* database write paths, the scrape task endpoints, the scraper factory,   *)
(* the exception constructors and the legacy JobScraperService.            *)
(*                                                                         *)
(* Text is modelled as a sequence of one-character strings, so that        *)
(* strip(), lower(), split(), the substring test and the digit filter are  *)
(* computed the way Python computes them.                                  *)
(***************************************************************************)
EXTENDS Integers, Sequences, FiniteSets, TLC

VARIABLES
    cache,      \* Auth0JWKSProvider._cache: kid -> PEM key (NoKey when absent)
    jwks,       \* what the JWKS endpoint publishes now: kid -> JWK (NoJwk when absent)
    fetches,    \* number of HTTP requests made to the JWKS endpoint so far
    authLast,   \* the last call on the auth objects and how it ended (history)
    ddIn,       \* filter_duplicates: the list passed in
    ddOut,      \* filter_duplicates(ddIn)
    ddOut2,     \* filter_duplicates(ddOut)
    ddPc,       \* "start", "once" (ddOut computed), "twice" (ddOut2 computed)
    relJob,     \* calculate_relevance: the job record passed in
    relTerm,    \* calculate_relevance: the search term passed in
    relScore,   \* the score returned, in units of 1/ScoreUnit
    relPc,      \* "start", "done"
    sortIn,     \* sort_by_date: the list passed in
    sortOrder,  \* sort_by_date: the sort_order text passed in
    sortOut,    \* the list returned
    sortPc,     \* "start", "done"
    srchParams, \* search_jobs: the JobSearchParams passed in
    srchPairs,  \* the (site, scraper) pairs still to be searched
    srchAll,    \* all_results so far
    srchLog,    \* what each site's search did, in order (history)
    srchResult, \* the list search_jobs returned
    srchPc,     \* "start", "searching", "done" (returned), "raised"
    dbRows,     \* the committed rows of the database: id -> stored or not
    dbSess,     \* the SQLAlchemy session of the current request
    dbLast,     \* the last database-writing operation and how it ended
    tskNext,    \* the next unused id (uuid4 and Celery ids are fresh)
    tskCelery,  \* the Celery tasks queued by scrape_jobs: id -> state
    tskActive,  \* job_scraper_background.active_tasks
    tskQueued,  \* start_job_search calls queued on BackgroundTasks
    tskIssued,  \* the ids each endpoint has returned (history)
    tskLast,    \* the last status request and its response
    facScrapers,\* ScraperFactory._scrapers
    facLast,    \* the last call on the factory and what it returned or raised
    excLast,    \* the last exception object constructed (or the TypeError raised)
    legParams,  \* JobScraperService.search_jobs: site_name and sort_order passed in
    legCollected, \* all_results as collected from the scrapers
    legSorted,  \* the collected list object after _sort_results_by_date
    legOut,     \* the list JobScraperService.search_jobs returned
    legPc,      \* "start", "done"
    jobRows,    \* the jobs table, id to row
    jobLast,    \* the last request on a job, its answer and the table before it
    usrTable,   \* the users table, the ids of the users stored
    usrCalls    \* each get_or_create call, where it stands and how it ended

authVars == <<cache, jwks, fetches, authLast>>
ddVars == <<ddIn, ddOut, ddOut2, ddPc>>
relVars == <<relJob, relTerm, relScore, relPc>>
sortVars == <<sortIn, sortOrder, sortOut, sortPc>>
srchVars == <<srchParams, srchPairs, srchAll, srchLog, srchResult, srchPc>>

dbVars == <<dbRows, dbSess, dbLast>>

tskVars == <<tskNext, tskCelery, tskActive, tskQueued, tskIssued, tskLast>>

facVars == <<facScrapers, facLast>>

excVars == <<excLast>>

legVars == <<legParams, legCollected, legSorted, legOut, legPc>>

jobVars == <<jobRows, jobLast>>

usrVars == <<usrTable, usrCalls>>

vars == <<authVars, ddVars, relVars, sortVars, srchVars, dbVars, tskVars,
     facVars, excVars, legVars, jobVars, usrVars>>

\* what the operations of one component leave alone
nonAuthVars == <<ddVars, relVars, sortVars, srchVars, dbVars, tskVars,
     facVars, excVars, legVars, jobVars, usrVars>>
nonDdVars == <<authVars, relVars, sortVars, srchVars, dbVars, tskVars,
     facVars, excVars, legVars, jobVars, usrVars>>
nonRelVars == <<authVars, ddVars, sortVars, srchVars, dbVars, tskVars,
     facVars, excVars, legVars, jobVars, usrVars>>
nonSortVars == <<authVars, ddVars, relVars, srchVars, dbVars, tskVars,
     facVars, excVars, legVars, jobVars, usrVars>>
nonDbVars == <<authVars, ddVars, relVars, sortVars, srchVars, tskVars,
     facVars, excVars, legVars, jobVars, usrVars>>
nonTskVars == <<authVars, ddVars, relVars, sortVars, srchVars, dbVars,
     facVars, excVars, legVars, jobVars, usrVars>>
nonSrchVars == <<authVars, ddVars, relVars, sortVars, dbVars, tskVars,
     facVars, excVars, legVars, jobVars, usrVars>>
nonFacVars == <<authVars, ddVars, relVars, sortVars, srchVars, dbVars,
     tskVars, excVars, legVars, jobVars, usrVars>>
nonExcVars == <<authVars, ddVars, relVars, sortVars, srchVars, dbVars,
     tskVars, facVars, legVars, jobVars, usrVars>>
nonLegVars == <<authVars, ddVars, relVars, sortVars, srchVars, dbVars,
     tskVars, facVars, excVars, jobVars, usrVars>>
nonJobVars == <<authVars, ddVars, relVars, sortVars, srchVars, dbVars,
     tskVars, facVars, excVars, legVars, usrVars>>
nonUsrVars == <<authVars, ddVars, relVars, sortVars, srchVars, dbVars,
     tskVars, facVars, excVars, legVars, jobVars>>

\* a component that takes no part in the specification being checked
IdleAuth ==
    /\ cache = <<>> /\ jwks = <<>> /\ fetches = 0 /\ authLast = <<>>
IdleDd ==
    /\ ddIn = <<>> /\ ddOut = <<>> /\ ddOut2 = <<>> /\ ddPc = "idle"
IdleRel ==
    /\ relJob = <<>> /\ relTerm = <<>> /\ relScore = 0 /\ relPc = "idle"
IdleSort ==
    /\ sortIn = <<>> /\ sortOrder = <<>> /\ sortOut = <<>> /\ sortPc = "idle"
IdleDb == dbRows = <<>> /\ dbSess = <<>> /\ dbLast = <<>>
IdleTsk ==
    /\ tskNext = 0 /\ tskCelery = <<>> /\ tskActive = <<>> /\ tskQueued = {}
    /\ tskIssued = <<>> /\ tskLast = <<>>
IdleFac == facScrapers = <<>> /\ facLast = <<>>
IdleExc == excLast = <<>>
IdleLeg ==
    /\ legParams = <<>> /\ legCollected = <<>> /\ legSorted = <<>> /\ legOut = <<>>
    /\ legPc = "idle"
IdleJob == jobRows = <<>> /\ jobLast = <<>>
IdleUsr == usrTable = <<>> /\ usrCalls = <<>>
IdleSrch ==
    /\ srchParams = <<>> /\ srchPairs = <<>> /\ srchAll = <<>> /\ srchLog = <<>>
    /\ srchResult = <<>> /\ srchPc = "idle"

----------------------------------------------------------------------------
(* Text helpers (Python str methods)                                       *)

\* str.isspace for one character
IsSpace(c) == c \in {" ", "\t"}

\* str.isdigit for one character
IsDigit(c) == c \in {"0", "1", "2", "3", "4", "5", "6", "7", "8", "9"}

\* str.lower for one character
UpperLetters ==
    <<"A", "B", "C", "D", "E", "F", "G", "H", "I", "J", "K", "L", "M",
      "N", "O", "P", "Q", "R", "S", "T", "U", "V", "W", "X", "Y", "Z">>
LowerLetters ==
    <<"a", "b", "c", "d", "e", "f", "g", "h", "i", "j", "k", "l", "m",
      "n", "o", "p", "q", "r", "s", "t", "u", "v", "w", "x", "y", "z">>
LowerChar(c) ==
    IF \E i \in 1..26 : UpperLetters[i] = c
    THEN LowerLetters[CHOOSE i \in 1..26 : UpperLetters[i] = c]
    ELSE c

\* str.lower
Lower(s) == [i \in 1..Len(s) |-> LowerChar(s[i])]

\* str.lstrip
RECURSIVE LStrip(_)
LStrip(s) == IF s # <<>> /\ IsSpace(Head(s)) THEN LStrip(Tail(s)) ELSE s

\* str.rstrip
RECURSIVE RStrip(_)
RStrip(s) ==
    IF s # <<>> /\ IsSpace(s[Len(s)]) THEN RStrip(SubSeq(s, 1, Len(s) - 1)) ELSE s

\* str.strip
Strip(s) == RStrip(LStrip(s))

\* the Python test `sub in s` on strings
Contains(sub, s) ==
    \E i \in 0..(Len(s) - Len(sub)) : SubSeq(s, i + 1, i + Len(sub)) = sub

\* str.split() with no argument: the maximal runs of non-space characters
RECURSIVE SplitFrom(_, _, _)
SplitFrom(s, word, acc) ==
    IF s = <<>>
    THEN IF word = <<>> THEN acc ELSE Append(acc, word)
    ELSE IF IsSpace(Head(s))
         THEN SplitFrom(Tail(s), <<>>, IF word = <<>> THEN acc ELSE Append(acc, word))
         ELSE SplitFrom(Tail(s), Append(word, Head(s)), acc)

Split(s) == SplitFrom(s, <<>>, <<>>)

\* ''.join(filter(str.isdigit, s))
DigitsOf(s) == SelectSeq(s, IsDigit)

DigitValue(c) ==
    CASE c = "0" -> 0 [] c = "1" -> 1 [] c = "2" -> 2 [] c = "3" -> 3
      [] c = "4" -> 4 [] c = "5" -> 5 [] c = "6" -> 6 [] c = "7" -> 7
      [] c = "8" -> 8 [] c = "9" -> 9

\* int(d) for a non-empty string of digits (int('') raises ValueError)
RECURSIVE IntOf(_)
IntOf(d) ==
    IF d = <<>> THEN 0 ELSE 10 * IntOf(SubSeq(d, 1, Len(d) - 1)) + DigitValue(d[Len(d)])

\* dict.get(key, default) on a job record
Get(job, key, default) == IF key \in DOMAIN job THEN job[key] ELSE default

----------------------------------------------------------------------------
(* Exceptions: the class hierarchy and try/except dispatch                 *)

\* the direct base class of each exception class that can be raised here
\* (app.exceptions, PyJWT's jwt.exceptions, requests, fastapi, sqlalchemy.exc,
\* builtins)
Parent(c) ==
    CASE c = "TokenExpiredError"         -> "AuthenticationError"
      [] c = "InvalidTokenError"         -> "AuthenticationError"
      [] c = "AuthenticationError"       -> "ApplicationException"
      [] c = "ApplicationException"      -> "Exception"
      [] c = "jwt.ExpiredSignatureError" -> "jwt.InvalidTokenError"
      [] c = "jwt.InvalidAudienceError"  -> "jwt.InvalidTokenError"
      [] c = "jwt.InvalidIssuerError"    -> "jwt.InvalidTokenError"
      [] c = "jwt.InvalidSignatureError" -> "jwt.DecodeError"
      [] c = "jwt.DecodeError"           -> "jwt.InvalidTokenError"
      [] c = "jwt.InvalidTokenError"     -> "jwt.PyJWTError"
      [] c = "jwt.PyJWTError"            -> "Exception"
      [] c = "requests.RequestException" -> "OSError"
      [] c = "OSError"                   -> "Exception"
      [] c = "KeyError"                  -> "Exception"
      [] c = "DatabaseError"             -> "ApplicationException"
      [] c = "HTTPException"             -> "Exception"
      [] c = "IntegrityError"            -> "Exception"
      [] c = "OperationalError"          -> "Exception"
      [] c = "Exception"                 -> "BaseException"
      [] OTHER                           -> "object"

\* issubclass(c, d)
RECURSIVE IsSubclass(_, _)
IsSubclass(c, d) ==
    IF c = d THEN TRUE
    ELSE IF c = "object" THEN FALSE
    ELSE IsSubclass(Parent(c), d)

\* the status_code an exception of class c carries: each constructor passes
\* its own code to ApplicationException.__init__ or defers to its base class
RECURSIVE StatusCode(_)
StatusCode(c) ==
    CASE c = "AuthenticationError" -> 401
      [] c \in {"TokenExpiredError", "InvalidTokenError"} -> StatusCode(Parent(c))
      [] OTHER -> 500

\* A try statement whose except clauses are `handlers`, a sequence of
\* <<class caught, class raised by the clause>>: the class that escapes when
\* the body raises `raised` (the first clause whose class matches runs).
RECURSIVE Escapes(_, _)
Escapes(handlers, raised) ==
    IF handlers = <<>> THEN raised
    ELSE IF IsSubclass(raised, Head(handlers)[1]) THEN Head(handlers)[2]
    ELSE Escapes(Tail(handlers), raised)

----------------------------------------------------------------------------
(* Token verifier: Auth0JWKSProvider and Auth0Service                      *)

\* bound on the number of requests to the JWKS endpoint in one behaviour
MaxFetches == 2

Kids == {"k1", "k2"}
NoKid == "none"                 \* a token header that carries no 'kid'
KeyMaterial == {"A", "B"}       \* RSA key pairs (modulus, exponent)
NoKey == <<>>                   \* no PEM key
NoJwk == [absent |-> TRUE]      \* the endpoint publishes nothing under the kid

\* a JWK as published: its modulus field 'n' is there or missing
Jwks == [n : KeyMaterial \cup {"missing"}]

ApiAudience == "api"
Audiences == {"api", "other"}
Issuer == "tenant"
Issuers == {"tenant", "other"}

\* a token as jwt sees it: a parseable header with its kid, the key pair that
\* signed it, and the aud / iss / exp claims
\* (a header without kid is refused before anything else of the token is read,
\* so one such token stands for all)
WellFormedTokens ==
    [wellFormed : {TRUE}, kid : Kids, signedBy : KeyMaterial,
     aud : Audiences, iss : Issuers, expired : BOOLEAN]
    \cup {[wellFormed |-> TRUE, kid |-> NoKid, signedBy |-> "A",
            aud |-> ApiAudience, iss |-> Issuer, expired |-> FALSE]}
MalformedToken ==
    [wellFormed |-> FALSE, kid |-> NoKid, signedBy |-> "A",
     aud |-> "other", iss |-> "other", expired |-> FALSE]
Tokens == WellFormedTokens \cup {MalformedToken}
NoToken == [absent |-> TRUE]

\* Auth0JWKSProvider._jwk_to_pem: the PEM encoding of the key, or the
\* AuthenticationError it raises when jwk['n'] is missing (KeyError clause)
JwkToPem(jwk) ==
    IF jwk.n = "missing"
    THEN [exc |-> Escapes(<< <<"KeyError", "AuthenticationError">>,
                             <<"Exception", "AuthenticationError">> >>, "KeyError"),
          pem |-> NoKey]
    ELSE [exc |-> "none", pem |-> <<"PEM", jwk.n>>]

\* the except clauses of get_public_key
GetKeyHandlers ==
    << <<"requests.RequestException", "AuthenticationError">>,
       <<"Exception", "AuthenticationError">> >>

\* get_public_key without the cache lookup: every call asks the endpoint and
\* overwrites the entry
GetKeyCallNoCacheCheck(c, j, kid, netOk) ==
    IF ~netOk
    THEN [exc |-> "AuthenticationError", key |-> NoKey, cache |-> c, fetched |-> TRUE]
    ELSE IF j[kid] = NoJwk \/ j[kid].n = "missing"
    THEN [exc |-> "AuthenticationError", key |-> NoKey, cache |-> c, fetched |-> TRUE]
    ELSE [exc |-> "none", key |-> <<"PEM", j[kid].n>>,
          cache |-> [c EXCEPT ![kid] = <<"PEM", j[kid].n>>], fetched |-> TRUE]

\* Auth0JWKSProvider.get_public_key(kid) on cache c while the endpoint
\* publishes j; netOk is whether requests.get(...).json() succeeds.
\* Gives the key returned or the exception raised, the cache afterwards and
\* whether the endpoint was contacted.
GetKeyCall(c, j, kid, netOk) ==
    IF c[kid] # NoKey
    THEN [exc |-> "none", key |-> c[kid], cache |-> c, fetched |-> FALSE]
    ELSE IF ~netOk
    THEN [exc |-> Escapes(GetKeyHandlers, "requests.RequestException"),
          key |-> NoKey, cache |-> c, fetched |-> TRUE]
    ELSE IF j[kid] = NoJwk
    THEN [exc |-> Escapes(GetKeyHandlers, "AuthenticationError"),
          key |-> NoKey, cache |-> c, fetched |-> TRUE]
    ELSE LET conv == JwkToPem(j[kid]) IN
         IF conv.exc # "none"
         THEN [exc |-> Escapes(GetKeyHandlers, conv.exc),
               key |-> NoKey, cache |-> c, fetched |-> TRUE]
         ELSE [exc |-> "none", key |-> conv.pem,
               cache |-> [c EXCEPT ![kid] = conv.pem], fetched |-> TRUE]

\* jwt.decode called without audience=: the aud claim is not compared
JwtDecodeNoAudience(token, key) ==
    IF key # <<"PEM", token.signedBy>> THEN {"jwt.InvalidSignatureError"}
    ELSE IF token.expired THEN {"jwt.ExpiredSignatureError"}
    ELSE IF token.iss # Issuer THEN {"jwt.InvalidIssuerError"}
    ELSE {"none"}

\* jwt.decode(token, key, algorithms=["RS256"], audience=..., issuer=...):
\* the set of exception classes it can raise ("none": it returns the payload).
\* The signature is checked first, then exp, then iss and aud (whose order
\* differs between PyJWT releases: either may be the one reported).
JwtDecode(token, key) ==
    IF key # <<"PEM", token.signedBy>> THEN {"jwt.InvalidSignatureError"}
    ELSE IF token.expired THEN {"jwt.ExpiredSignatureError"}
    ELSE LET wrong == (IF token.aud # ApiAudience THEN {"jwt.InvalidAudienceError"} ELSE {})
                      \cup (IF token.iss # Issuer THEN {"jwt.InvalidIssuerError"} ELSE {})
         IN IF wrong = {} THEN {"none"} ELSE wrong

\* verify_token without its first except clause
VerifyHandlersNoExpiredClause ==
    << <<"jwt.InvalidAudienceError", "InvalidTokenError">>,
       <<"jwt.InvalidIssuerError", "InvalidTokenError">>,
       <<"jwt.InvalidTokenError", "InvalidTokenError">>,
       <<"Exception", "AuthenticationError">> >>

\* the except clauses of verify_token, in source order
VerifyHandlers ==
    << <<"jwt.ExpiredSignatureError", "TokenExpiredError">>,
       <<"jwt.InvalidAudienceError", "InvalidTokenError">>,
       <<"jwt.InvalidIssuerError", "InvalidTokenError">>,
       <<"jwt.InvalidTokenError", "InvalidTokenError">>,
       <<"Exception", "AuthenticationError">> >>

\* Auth0Service.verify_token(token): the set of possible outcomes, each the
\* exception that escapes ("none": the payload is returned), the key the
\* provider returned, the cache afterwards and whether the endpoint was asked.
VerifyCall(c, j, token, netOk) ==
    IF ~token.wellFormed
    THEN {[exc |-> Escapes(VerifyHandlers, "jwt.DecodeError"),
           key |-> NoKey, cache |-> c, fetched |-> FALSE, asked |-> FALSE]}
    ELSE IF token.kid = NoKid
    THEN {[exc |-> Escapes(VerifyHandlers, "InvalidTokenError"),
           key |-> NoKey, cache |-> c, fetched |-> FALSE, asked |-> FALSE]}
    ELSE LET got == GetKeyCall(c, j, token.kid, netOk) IN
         IF got.exc # "none"
         THEN {[exc |-> Escapes(VerifyHandlers, got.exc), key |-> NoKey,
                cache |-> got.cache, fetched |-> got.fetched, asked |-> TRUE]}
         ELSE {[exc |-> IF d = "none" THEN "none" ELSE Escapes(VerifyHandlers, d),
                key |-> got.key, cache |-> got.cache, fetched |-> got.fetched,
                asked |-> TRUE] : d \in JwtDecode(token, got.key)}

AuthLastInit ==
    [op |-> "init", kid |-> NoKid, token |-> NoToken, exc |-> "none", key |-> NoKey,
     cached |-> FALSE, published |-> FALSE]

InitAuthVars ==
    /\ cache = [k \in Kids |-> NoKey]
    /\ jwks \in [Kids -> Jwks \cup {NoJwk}]
    /\ fetches = 0
    /\ authLast = AuthLastInit

\* a caller invokes Auth0JWKSProvider.get_public_key(kid)
GetPublicKey(kid, netOk) ==
    LET r == GetKeyCall(cache, jwks, kid, netOk) IN
    /\ r.fetched => fetches < MaxFetches
    /\ netOk \/ r.fetched          \* the network matters only when it is used
    /\ cache' = r.cache
    /\ fetches' = IF r.fetched THEN fetches + 1 ELSE fetches
    /\ authLast' = [op |-> "get_public_key", kid |-> kid, token |-> NoToken,
                    exc |-> r.exc, key |-> r.key,
                    cached |-> cache[kid] # NoKey, published |-> jwks[kid] # NoJwk]
    /\ UNCHANGED <<jwks, nonAuthVars>>

\* a caller invokes Auth0Service.verify_token(token)
VerifyToken(token, netOk) ==
    \E r \in VerifyCall(cache, jwks, token, netOk) :
        /\ r.fetched => fetches < MaxFetches
        /\ netOk \/ r.fetched      \* the network matters only when it is used
        /\ cache' = r.cache
        /\ fetches' = IF r.fetched THEN fetches + 1 ELSE fetches
        /\ authLast' = [op |-> "verify_token", kid |-> token.kid, token |-> token,
                        exc |-> r.exc, key |-> r.key,
                        cached |-> token.kid \in Kids /\ cache[token.kid] # NoKey,
                        published |-> token.kid \in Kids /\ jwks[token.kid] # NoJwk]
        /\ UNCHANGED <<jwks, nonAuthVars>>

\* a caller invokes Auth0JWKSProvider.clear_cache()
ClearCache ==
    /\ cache' = [k \in Kids |-> NoKey]
    /\ authLast' = [AuthLastInit EXCEPT !.op = "clear_cache"]
    /\ UNCHANGED <<jwks, fetches, nonAuthVars>>

\* the identity provider rotates its keys: the JWKS endpoint starts or stops
\* publishing a key under kid
EndpointPublishes(kid, jwk) ==
    /\ jwks[kid] # jwk
    /\ jwks' = [jwks EXCEPT ![kid] = jwk]
    /\ UNCHANGED <<cache, fetches, authLast, nonAuthVars>>

InitAuth ==
    InitAuthVars /\ IdleDd /\ IdleRel /\ IdleSort /\ IdleSrch /\ IdleDb /\ IdleTsk
    /\ IdleFac
    /\ IdleExc
    /\ IdleLeg
    /\ IdleJob
    /\ IdleUsr

NextAuth ==
    \/ \E kid \in Kids, netOk \in BOOLEAN : GetPublicKey(kid, netOk)
    \/ \E token \in Tokens, netOk \in BOOLEAN : VerifyToken(token, netOk)
    \/ ClearCache
    \/ \E kid \in Kids, jwk \in Jwks \cup {NoJwk} : EndpointPublishes(kid, jwk)

SpecAuth == InitAuth /\ [][NextAuth]_vars

----------------------------------------------------------------------------
(* Claims about the token verifier (checked under SpecAuth)                *)

AuthFamily == {"AuthenticationError", "TokenExpiredError", "InvalidTokenError"}

\* C1 as stated: verify_token never returns a payload for a token whose kid
\* the JWKS endpoint does not publish (at the time of the call), whose
\* audience is not the API audience, or which has expired; it raises an
\* authentication error instead.
C1_RejectsUnpublishedKid ==
    (/\ authLast.op = "verify_token"
     /\ \/ ~authLast.published
        \/ authLast.token.aud # ApiAudience
        \/ authLast.token.expired)
    => authLast.exc \in AuthFamily

\* C1 amended: verify_token never returns a payload for a token whose kid is
\* neither held in the provider's cache nor published by the JWKS endpoint,
\* whose audience is not the API audience, or which has expired; in each of
\* these cases it raises an authentication error, after any earlier calls.
C1_RejectsUnknownKid ==
    (/\ authLast.op = "verify_token"
     /\ \/ ~(authLast.cached \/ authLast.published)
        \/ authLast.token.aud # ApiAudience
        \/ authLast.token.expired)
    => authLast.exc \in AuthFamily

\* a token with a kid that is neither cached nor published was rejected after
\* the endpoint had been asked before
C1_Witness ==
    /\ authLast.op = "verify_token"
    /\ authLast.token.wellFormed
    /\ authLast.token.kid \in Kids
    /\ ~authLast.cached /\ ~authLast.published
    /\ authLast.token.aud = ApiAudience /\ ~authLast.token.expired
    /\ authLast.exc = "AuthenticationError"
    /\ fetches = 2

\* C5: once get_public_key(kid) has succeeded the entry stays: a later call
\* for kid (made directly or by verify_token) returns the cached PEM and does
\* not contact the endpoint, whatever the endpoint publishes; only
\* clear_cache removes or replaces an entry (it removes them all), and a call
\* for a kid that is not cached asks the endpoint.  A step that leaves jwks
\* alone is a call, and authLast' says which.
C5_CachedUntilCleared ==
    [][/\ \A k \in Kids :
            (cache[k] # NoKey /\ cache'[k] # cache[k]) =>
                /\ jwks' = jwks
                /\ authLast'.op = "clear_cache"
                /\ cache'[k] = NoKey
       /\ (/\ jwks' = jwks
           /\ authLast'.op \in {"get_public_key", "verify_token"}
           /\ authLast'.kid \in Kids
           /\ cache[authLast'.kid] # NoKey) =>
                /\ fetches' = fetches
                /\ authLast'.cached
                /\ authLast'.key = cache[authLast'.kid]
                /\ authLast'.op = "get_public_key" => authLast'.exc = "none"
       /\ (/\ jwks' = jwks
           /\ authLast'.op = "get_public_key"
           /\ cache[authLast'.kid] = NoKey) => fetches' = fetches + 1
       /\ (jwks' = jwks /\ authLast'.op = "clear_cache") =>
                \A k \in Kids : cache'[k] = NoKey
      ]_vars

\* a call answered from the cache while the endpoint publishes another key,
\* or none, under that kid
C5_Witness ==
    /\ authLast.op = "get_public_key"
    /\ authLast.cached
    /\ authLast.exc = "none"
    /\ authLast.key = cache[authLast.kid]
    /\ \/ jwks[authLast.kid] = NoJwk
       \/ <<"PEM", jwks[authLast.kid].n>> # authLast.key

\* C6: whatever makes verify_token fail, the exception that escapes is
\* AuthenticationError or a subclass of it, with status 401: TokenExpiredError
\* for an expired token, InvalidTokenError for a wrong audience or issuer
\* (the signature being valid in both cases), and AuthenticationError itself
\* when the provider could not fetch or convert the key.
C6_TypedAuthErrors ==
    authLast.op = "verify_token" =>
        LET t == authLast.token
            sigOk == authLast.key = <<"PEM", t.signedBy>>
        IN  /\ authLast.exc # "none" =>
                /\ IsSubclass(authLast.exc, "AuthenticationError")
                /\ StatusCode(authLast.exc) = 401
            /\ (sigOk /\ t.expired) => authLast.exc = "TokenExpiredError"
            /\ (sigOk /\ ~t.expired /\ (t.aud # ApiAudience \/ t.iss # Issuer))
                  => authLast.exc = "InvalidTokenError"
            /\ (t.wellFormed /\ t.kid # NoKid /\ authLast.key = NoKey)
                  => authLast.exc = "AuthenticationError"

\* an expired token, validly signed with the key published under its kid,
\* was refused with TokenExpiredError
C6_Witness ==
    /\ authLast.op = "verify_token"
    /\ authLast.token.expired
    /\ authLast.key = <<"PEM", authLast.token.signedBy>>
    /\ authLast.exc = "TokenExpiredError"

\* C18: for a token whose header carries no kid, verify_token raises
\* InvalidTokenError (the typed invalid-token error, not the generic
\* AuthenticationError), and no key is obtained from the JWKS provider.
C18_NoKidIsInvalidToken ==
    (/\ authLast.op = "verify_token"
     /\ authLast.token.wellFormed
     /\ authLast.token.kid = NoKid) =>
        /\ authLast.exc = "InvalidTokenError"
        /\ authLast.key = NoKey

----------------------------------------------------------------------------
(* Result processor: JobResultProcessor.filter_duplicates                  *)

\* bound on the length of a result list
MaxJobs == 3

\* the url, title and company texts jobs are drawn from: "", "u", " u", "v";
\* "a", "A ", "a|"; "c", "|c"
DdUrls == {<<>>, <<"u">>, <<" ", "u">>, <<"v">>}
DdTitles == {<<"a">>, <<"A", " ">>, <<"a", "|">>}
DdCompanies == {<<"c">>, <<"|", "c">>}
DdJobs == [url : DdUrls, title : DdTitles, company : DdCompanies]

\* all sequences over S of length at most n
SeqsUpTo(S, n) == UNION {[1..k -> S] : k \in 0..n}

\* f"{title}|{company}"
JobIdentifier(title, company) == title \o <<"|">> \o company

\* filter_duplicates with the seen sets emptied again whenever a duplicate
\* is met
RECURSIVE FilterLoopResetOnDuplicate(_, _, _, _)
FilterLoopResetOnDuplicate(results, seen_urls, seen_job_identifiers, unique_jobs) ==
    IF results = <<>> THEN unique_jobs
    ELSE LET job == Head(results)
             url == Strip(Get(job, "url", <<>>))
             job_identifier == JobIdentifier(Lower(Strip(Get(job, "title", <<>>))),
                                             Lower(Strip(Get(job, "company", <<>>))))
             is_duplicate == \/ (url # <<>> /\ url \in seen_urls)
                             \/ job_identifier \in seen_job_identifiers
         IN IF is_duplicate
            THEN FilterLoopResetOnDuplicate(Tail(results), {}, {}, unique_jobs)
            ELSE FilterLoopResetOnDuplicate(
                     Tail(results),
                     IF url # <<>> THEN seen_urls \cup {url} ELSE seen_urls,
                     seen_job_identifiers \cup {job_identifier},
                     Append(unique_jobs, job))

\* filter_duplicates that compares urls only (the elif branch left out)
RECURSIVE FilterLoopUrlOnly(_, _, _, _)
FilterLoopUrlOnly(results, seen_urls, seen_job_identifiers, unique_jobs) ==
    IF results = <<>> THEN unique_jobs
    ELSE LET job == Head(results)
             url == Strip(Get(job, "url", <<>>))
             is_duplicate == url # <<>> /\ url \in seen_urls
         IN IF is_duplicate
            THEN FilterLoopUrlOnly(Tail(results), seen_urls, seen_job_identifiers,
                                   unique_jobs)
            ELSE FilterLoopUrlOnly(
                     Tail(results),
                     IF url # <<>> THEN seen_urls \cup {url} ELSE seen_urls,
                     seen_job_identifiers,
                     Append(unique_jobs, job))

\* the for loop of filter_duplicates over the rest of the list, with the
\* loop's three accumulators
RECURSIVE FilterLoop(_, _, _, _)
FilterLoop(results, seen_urls, seen_job_identifiers, unique_jobs) ==
    IF results = <<>> THEN unique_jobs
    ELSE LET job == Head(results)
             url == Strip(Get(job, "url", <<>>))
             title == Lower(Strip(Get(job, "title", <<>>)))
             company == Lower(Strip(Get(job, "company", <<>>)))
             job_identifier == JobIdentifier(title, company)
             is_duplicate ==
                 IF url # <<>> /\ url \in seen_urls THEN TRUE
                 ELSE IF job_identifier \in seen_job_identifiers THEN TRUE
                 ELSE FALSE
         IN IF ~is_duplicate
            THEN FilterLoop(Tail(results),
                            IF url # <<>> THEN seen_urls \cup {url} ELSE seen_urls,
                            seen_job_identifiers \cup {job_identifier},
                            Append(unique_jobs, job))
            ELSE FilterLoop(Tail(results), seen_urls, seen_job_identifiers,
                            unique_jobs)

\* JobResultProcessor.filter_duplicates(results)
FilterDuplicates(results) == FilterLoop(results, {}, {}, <<>>)

InitDdVars ==
    /\ ddIn \in SeqsUpTo(DdJobs, MaxJobs)
    /\ ddOut = <<>>
    /\ ddOut2 = <<>>
    /\ ddPc = "start"

\* filter_duplicates is applied to the input list
FilterOnce ==
    /\ ddPc = "start"
    /\ ddOut' = FilterDuplicates(ddIn)
    /\ ddPc' = "once"
    /\ UNCHANGED <<ddIn, ddOut2, nonDdVars>>

\* filter_duplicates is applied to its own result
FilterAgain ==
    /\ ddPc = "once"
    /\ ddOut2' = FilterDuplicates(ddOut)
    /\ ddPc' = "twice"
    /\ UNCHANGED <<ddIn, ddOut, nonDdVars>>

InitDedup ==
    InitDdVars /\ IdleAuth /\ IdleRel /\ IdleSort /\ IdleSrch /\ IdleDb /\ IdleTsk
    /\ IdleFac
    /\ IdleExc
    /\ IdleLeg
    /\ IdleJob
    /\ IdleUsr

NextDedup == FilterOnce \/ FilterAgain

SpecDedup == InitDedup /\ [][NextDedup]_vars

----------------------------------------------------------------------------
(* Claims about filter_duplicates (checked under SpecDedup)                *)

\* C2: filter_duplicates is idempotent: applied to its own result it returns
\* the same jobs in the same order.
C2_Idempotent == ddPc = "twice" => ddOut2 = ddOut

\* the second application ran on a list of two or more jobs that the first
\* application had shortened
C2_Witness ==
    /\ ddPc = "twice"
    /\ Len(ddOut) >= 2
    /\ Len(ddOut) < Len(ddIn)

\* C3: in the list filter_duplicates returns no two jobs have the same
\* non-empty stripped url, and no two have the same (title, company) pair
\* after stripping and lower-casing.
C3_NoDuplicatesLeft ==
    ddPc # "start" =>
        \A i, j \in 1..Len(ddOut) :
            i < j =>
                /\ ~(/\ Strip(ddOut[i].url) # <<>>
                     /\ Strip(ddOut[i].url) = Strip(ddOut[j].url))
                /\ ~(/\ Lower(Strip(ddOut[i].title)) = Lower(Strip(ddOut[j].title))
                     /\ Lower(Strip(ddOut[i].company)) = Lower(Strip(ddOut[j].company)))

\* the input held two jobs whose urls differ only in whitespace and two jobs
\* whose titles differ only in case and whitespace; one of each was dropped
C3_Witness ==
    /\ ddPc = "once"
    /\ Len(ddIn) = 3
    /\ Len(ddOut) = 1
    /\ \E i, j \in 1..3 :
          /\ i < j
          /\ ddIn[i].url # ddIn[j].url
          /\ Strip(ddIn[i].url) = Strip(ddIn[j].url)
          /\ Strip(ddIn[i].url) # <<>>
          /\ ddIn[i].title # ddIn[j].title
          /\ ddIn[i].company # ddIn[j].company
    /\ \E i, j \in 1..3 :
          /\ i < j
          /\ ddIn[i].title # ddIn[j].title
          /\ Lower(Strip(ddIn[i].title)) = Lower(Strip(ddIn[j].title))
          /\ ddIn[i].company = ddIn[j].company
          /\ Strip(ddIn[i].url) # Strip(ddIn[j].url)

----------------------------------------------------------------------------
(* Result processor: date texts                                            *)

\* bound on the number N in the generated texts "N days ago", "N weeks ago"
\* and "N months ago"
MaxAge == 40

\* str(n) for n >= 0
RECURSIVE NumText(_)
NumText(n) ==
    LET d == <<"0", "1", "2", "3", "4", "5", "6", "7", "8", "9">>[(n % 10) + 1]
    IN IF n < 10 THEN <<d>> ELSE Append(NumText(n \div 10), d)

DaysText(n) == NumText(n) \o <<" ", "d", "a", "y", "s", " ", "a", "g", "o">>
WeeksText(n) == NumText(n) \o <<" ", "w", "e", "e", "k", "s", " ", "a", "g", "o">>
MonthsText(n) == NumText(n) \o <<" ", "m", "o", "n", "t", "h", "s", " ", "a", "g", "o">>

\* "", "Recently", "Today", "Just now", "5 hours ago", "Yesterday"
TxtEmpty == <<>>
TxtRecently == <<"R", "e", "c", "e", "n", "t", "l", "y">>
TxtToday == <<"T", "o", "d", "a", "y">>
TxtJustNow == <<"J", "u", "s", "t", " ", "n", "o", "w">>
TxtHoursAgo == <<"5", " ", "h", "o", "u", "r", "s", " ", "a", "g", "o">>
TxtYesterday == <<"Y", "e", "s", "t", "e", "r", "d", "a", "y">>
\* "1 day ago", "a day ago", "a week ago", "last month", "30+ days ago",
\* "2024-01-05" (JobspyScraper._format_date)
TxtOneDayAgo == <<"1", " ", "d", "a", "y", " ", "a", "g", "o">>
TxtADayAgo == <<"a", " ", "d", "a", "y", " ", "a", "g", "o">>
TxtAWeekAgo == <<"a", " ", "w", "e", "e", "k", " ", "a", "g", "o">>
TxtLastMonth == <<"l", "a", "s", "t", " ", "m", "o", "n", "t", "h">>
TxtThirtyPlus == <<"3", "0", "+", " ", "d", "a", "y", "s", " ", "a", "g", "o">>
TxtIsoDate == <<"2", "0", "2", "4", "-", "0", "1", "-", "0", "5">>

FixedDateTexts ==
    {TxtEmpty, TxtRecently, TxtToday, TxtJustNow, TxtHoursAgo, TxtYesterday,
     TxtOneDayAgo, TxtADayAgo, TxtAWeekAgo, TxtLastMonth, TxtThirtyPlus, TxtIsoDate}

DateTexts ==
    FixedDateTexts
    \cup {DaysText(n) : n \in 0..MaxAge}
    \cup {WeeksText(n) : n \in 0..MaxAge}
    \cup {MonthsText(n) : n \in 0..MaxAge}

\* the phrases the processor looks for
KwJustNow == <<"j", "u", "s", "t", " ", "n", "o", "w">>
KwToday == <<"t", "o", "d", "a", "y">>
KwHoursAgo == <<"h", "o", "u", "r", "s", " ", "a", "g", "o">>
KwYesterday == <<"y", "e", "s", "t", "e", "r", "d", "a", "y">>
KwDaysAgo == <<"d", "a", "y", "s", " ", "a", "g", "o">>
KwDayAgo == <<"d", "a", "y", " ", "a", "g", "o">>
KwWeek == <<"w", "e", "e", "k">>
KwMonth == <<"m", "o", "n", "t", "h">>

----------------------------------------------------------------------------
(* Result processor: JobResultProcessor.calculate_relevance                *)

\* scores are kept as whole numbers of 1/ScoreUnit, so that the weights
\* 0.4, 0.3, 0.1, 0.2, the keyword fractions and days/30 are all exact
ScoreUnit == 300 * 12

\* _calculate_recency_score where the days branch is 1.0 - days/30 with no
\* floor at 0.5
RecencyScoreNoFloor(date_str) ==
    LET date_str_lower == Lower(date_str) IN
    IF \E term \in {KwJustNow, KwToday, KwHoursAgo} : Contains(term, date_str_lower)
    THEN ScoreUnit
    ELSE IF Contains(KwYesterday, date_str_lower) THEN (9 * ScoreUnit) \div 10
    ELSE IF Contains(KwDaysAgo, date_str_lower) \/ Contains(KwDayAgo, date_str_lower)
    THEN IF DigitsOf(date_str_lower) = <<>> THEN ScoreUnit \div 2
         ELSE ScoreUnit - (IntOf(DigitsOf(date_str_lower)) * ScoreUnit) \div 30
    ELSE IF Contains(KwWeek, date_str_lower) THEN (4 * ScoreUnit) \div 10
    ELSE IF Contains(KwMonth, date_str_lower) THEN (2 * ScoreUnit) \div 10
    ELSE ScoreUnit \div 10

Max(a, b) == IF a >= b THEN a ELSE b
Min(a, b) == IF a <= b THEN a ELSE b

\* JobResultProcessor._calculate_recency_score(date_str)
RecencyScore(date_str) ==
    LET date_str_lower == Lower(date_str) IN
    IF \E term \in {KwJustNow, KwToday, KwHoursAgo} : Contains(term, date_str_lower)
    THEN ScoreUnit
    ELSE IF Contains(KwYesterday, date_str_lower) THEN (9 * ScoreUnit) \div 10
    ELSE IF Contains(KwDaysAgo, date_str_lower) \/ Contains(KwDayAgo, date_str_lower)
    THEN IF DigitsOf(date_str_lower) = <<>>
         THEN ScoreUnit \div 2                       \* int('') raises ValueError
         ELSE LET days == IntOf(DigitsOf(date_str_lower))
              IN Max(ScoreUnit \div 2, ScoreUnit - (days * ScoreUnit) \div 30)
    ELSE IF Contains(KwWeek, date_str_lower) THEN (4 * ScoreUnit) \div 10
    ELSE IF Contains(KwMonth, date_str_lower) THEN (2 * ScoreUnit) \div 10
    ELSE ScoreUnit \div 10

\* sum(1 for keyword in search_keywords if keyword in text)
Matches(search_keywords, text) ==
    Cardinality({i \in 1..Len(search_keywords) : Contains(search_keywords[i], text)})

\* calculate_relevance without the company term
CalculateRelevanceNoCompany(job, search_term) ==
    LET search_keywords == Split(Lower(search_term))
        n == Len(search_keywords)
        title == Lower(Get(job, "title", <<>>))
        description == Lower(Get(job, "description", <<>>))
    IN IF n = 0
       THEN ScoreUnit \div 2
       ELSE Min(ScoreUnit,
                (Matches(search_keywords, title) * 4 * ScoreUnit) \div (10 * n)
                + (Matches(search_keywords, description) * 3 * ScoreUnit) \div (10 * n)
                + (RecencyScore(Get(job, "date_posted", <<>>)) * 2) \div 10)

\* JobResultProcessor.calculate_relevance(job, search_term)
CalculateRelevance(job, search_term) ==
    LET search_keywords == Split(Lower(search_term))
        n == Len(search_keywords)
        title == Lower(Get(job, "title", <<>>))
        description == Lower(Get(job, "description", <<>>))
        company == Lower(Get(job, "company", <<>>))
    IN IF n = 0
       THEN ScoreUnit \div 2       \* ZeroDivisionError: the default score 0.5
       ELSE LET title_score ==
                    Min((4 * ScoreUnit) \div 10,
                        (Matches(search_keywords, title) * 4 * ScoreUnit) \div (10 * n))
                desc_score ==
                    IF description # <<>>
                    THEN Min((3 * ScoreUnit) \div 10,
                             (Matches(search_keywords, description) * 3 * ScoreUnit)
                                 \div (10 * n))
                    ELSE 0
                company_score ==
                    Min(ScoreUnit \div 10,
                        (Matches(search_keywords, company) * ScoreUnit) \div (10 * n))
                recency_score == RecencyScore(Get(job, "date_posted", <<>>))
                score == title_score + desc_score + company_score
                         + (recency_score * 2) \div 10
            IN Min(ScoreUnit, score)

\* the texts relevance inputs are drawn from: titles "ab", "A", ""; descriptions
\* "", "a", "b c"; companies "c", "ab"; search terms "", " ", "a", "A b", "b c",
\* "a a"
RelTitles == {<<"a", "b">>, <<"A">>, <<>>}
RelDescriptions == {<<>>, <<"a">>, <<"b", " ", "c">>}
RelCompanies == {<<"c">>, <<"a", "b">>}
RelTerms ==
    {<<>>, <<" ">>, <<"a">>, <<"A", " ", "b">>, <<"b", " ", "c">>, <<"a", " ", "a">>}
RelJobs ==
    [title : RelTitles, description : RelDescriptions, company : RelCompanies,
     date_posted : DateTexts]

InitRelVars ==
    /\ relJob \in RelJobs
    /\ relTerm \in RelTerms
    /\ relScore = 0
    /\ relPc = "start"

\* calculate_relevance is applied to the job and the search term
Score ==
    /\ relPc = "start"
    /\ relScore' = CalculateRelevance(relJob, relTerm)
    /\ relPc' = "done"
    /\ UNCHANGED <<relJob, relTerm, nonRelVars>>

InitRelevance ==
    InitRelVars /\ IdleAuth /\ IdleDd /\ IdleSort /\ IdleSrch /\ IdleDb /\ IdleTsk
    /\ IdleFac
    /\ IdleExc
    /\ IdleLeg
    /\ IdleJob
    /\ IdleUsr

NextRelevance == Score

SpecRelevance == InitRelevance /\ [][NextRelevance]_vars

----------------------------------------------------------------------------
(* Claims about calculate_relevance (checked under SpecRelevance)          *)

\* C4: the score calculate_relevance returns lies between 0 and 1 inclusive
\* for every job and search term; for a search term with no keyword in it the
\* error path returns 0.5.
C4_ScoreInUnitInterval ==
    relPc = "done" =>
        /\ 0 <= relScore
        /\ relScore <= ScoreUnit
        /\ Split(Lower(relTerm)) = <<>> => 2 * relScore = ScoreUnit

\* a job posted more than 30 days ago was scored for a search term none of
\* whose keywords it matches
C4_Witness ==
    /\ relPc = "done"
    /\ relJob.date_posted = DaysText(MaxAge)
    /\ relJob.title = <<>>
    /\ relTerm = <<"b", " ", "c">>
    /\ relJob.company = <<"a", "b">>
    /\ relJob.description = <<>>
    /\ relScore > 0

\* the number of keywords of the (lower-cased) search term found in the
\* lower-cased field of the job
Found(job, field, search_term) ==
    Matches(Split(Lower(search_term)), Lower(job[field]))

\* 10 * n * (0.4 t/n + 0.3 d/n + 0.1 c/n + 0.2 r) in units of 1/ScoreUnit, for
\* n keywords of which t, d and c are found in title, description and company
WeightedSum(job, search_term) ==
    LET n == Len(Split(Lower(search_term)))
    IN 4 * ScoreUnit * Found(job, "title", search_term)
       + 3 * ScoreUnit * Found(job, "description", search_term)
       + ScoreUnit * Found(job, "company", search_term)
       + 2 * n * RecencyScore(job.date_posted)

\* C14: for a non-empty search term the score is 0.4 x (fraction of keywords
\* found in the title) + 0.3 x (fraction found in the description) + 0.1 x
\* (fraction found in the company) + 0.2 x (recency score), capped at 1; a job
\* matching every keyword in the three fields with recency 1 scores exactly
\* 1; and a job of the same date that matches at least as many keywords in
\* every field scores at least as much.
C14_WeightedSum ==
    LET n == Len(Split(Lower(relTerm)))
    IN (relPc = "done" /\ n > 0) =>
        /\ 10 * n * relScore = Min(10 * n * ScoreUnit, WeightedSum(relJob, relTerm))
        /\ (/\ \A field \in {"title", "description", "company"} :
                   Found(relJob, field, relTerm) = n
            /\ RecencyScore(relJob.date_posted) = ScoreUnit) => relScore = ScoreUnit
        /\ \A job \in RelJobs :
              (/\ job.date_posted = relJob.date_posted
               /\ \A field \in {"title", "description", "company"} :
                      Found(job, field, relTerm) >= Found(relJob, field, relTerm))
              => CalculateRelevance(job, relTerm) >= relScore

\* a job posted today whose title, description and company each contain the
\* only keyword was scored, and another job of the same date matches fewer
\* fields
C14_Witness ==
    /\ relPc = "done"
    /\ relTerm = <<"a">>
    /\ relJob.title = <<"A">>
    /\ relJob.description = <<"a">>
    /\ relJob.company = <<"a", "b">>
    /\ RecencyScore(relJob.date_posted) = ScoreUnit
    /\ relScore = ScoreUnit
    /\ \E job \in RelJobs :
          /\ job.date_posted = relJob.date_posted
          /\ CalculateRelevance(job, relTerm) < relScore

----------------------------------------------------------------------------
(* Result processor: JobResultProcessor.sort_by_date                       *)

\* bound on the length of a list that is sorted
MaxSortLen == 3
\* bound on N in the "N days ago" texts of the lists that are sorted
MaxSortAge == 2

\* get_date_value, the sort key of sort_by_date
GetDateValue(job) ==
    LET date_str == Lower(Get(job, "date_posted", <<>>)) IN
    IF \E term \in {KwJustNow, KwToday, KwHoursAgo} : Contains(term, date_str)
    THEN 0
    ELSE IF Contains(KwYesterday, date_str) THEN 1
    ELSE IF Contains(KwDaysAgo, date_str) \/ Contains(KwDayAgo, date_str)
    THEN IF DigitsOf(date_str) = <<>> THEN 1000      \* int('') raises ValueError
         ELSE IntOf(DigitsOf(date_str))
    ELSE IF Contains(KwWeek, date_str)
    THEN 7 * IntOf(IF DigitsOf(date_str) = <<>> THEN <<"1">> ELSE DigitsOf(date_str))
    ELSE IF Contains(KwMonth, date_str)
    THEN 30 * IntOf(IF DigitsOf(date_str) = <<>> THEN <<"1">> ELSE DigitsOf(date_str))
    ELSE 9999

\* list.sort(key=get_date_value, reverse=reverse) is stable in both
\* directions: job goes behind every job already placed that does not have
\* to come after it
RECURSIVE InsertByKey(_, _, _)
InsertByKey(sorted, job, reverse) ==
    IF sorted = <<>> THEN <<job>>
    ELSE LET goesBefore ==
                 IF reverse THEN GetDateValue(job) > GetDateValue(Head(sorted))
                 ELSE GetDateValue(job) < GetDateValue(Head(sorted))
         IN IF goesBefore THEN <<job>> \o sorted
            ELSE <<Head(sorted)>> \o InsertByKey(Tail(sorted), job, reverse)

RECURSIVE SortLoop(_, _, _)
SortLoop(rest, sorted, reverse) ==
    IF rest = <<>> THEN sorted
    ELSE SortLoop(Tail(rest), InsertByKey(sorted, Head(rest), reverse), reverse)

TxtAsc == <<"a", "s", "c">>

\* sort_by_date with reverse=(sort_order != 'asc'), the lower() left out
SortByDateCaseSensitive(results, sort_order) ==
    SortLoop(results, <<>>, sort_order # TxtAsc)

\* JobResultProcessor.sort_by_date(results, sort_order)
SortByDate(results, sort_order) ==
    SortLoop(results, <<>>, Lower(sort_order) # TxtAsc)

\* the sort_order texts tried: "asc", "ASC", "Asc", "desc", "", "newest"
SortOrders ==
    {TxtAsc, <<"A", "S", "C">>, <<"A", "s", "c">>, <<"d", "e", "s", "c">>, <<>>,
     <<"n", "e", "w", "e", "s", "t">>}

\* the date texts of the lists that are sorted
SortDates ==
    {DaysText(n) : n \in 0..MaxSortAge}
    \cup {TxtToday, TxtYesterday, WeeksText(1), MonthsText(2), TxtRecently}

\* the list whose i-th job was posted at dates[i]; id tells equal dates apart
JobsPosted(dates) == [i \in 1..Len(dates) |-> [id |-> i, date_posted |-> dates[i]]]

InitSortVars ==
    /\ \E dates \in SeqsUpTo(SortDates, MaxSortLen) : sortIn = JobsPosted(dates)
    /\ sortOrder \in SortOrders
    /\ sortOut = <<>>
    /\ sortPc = "start"

\* sort_by_date is applied to the list
Sort ==
    /\ sortPc = "start"
    /\ sortOut' = SortByDate(sortIn, sortOrder)
    /\ sortPc' = "done"
    /\ UNCHANGED <<sortIn, sortOrder, nonSortVars>>

InitSort ==
    InitSortVars /\ IdleAuth /\ IdleDd /\ IdleRel /\ IdleSrch /\ IdleDb /\ IdleTsk
    /\ IdleFac
    /\ IdleExc
    /\ IdleLeg
    /\ IdleJob
    /\ IdleUsr

NextSort == Sort

SpecSort == InitSort /\ [][NextSort]_vars

----------------------------------------------------------------------------
(* Claims about sort_by_date (checked under SpecSort)                      *)

\* the recency buckets as the claim lists them
BucketTable ==
    /\ \A t \in {TxtJustNow, TxtToday, TxtHoursAgo} : GetDateValue([date_posted |-> t]) = 0
    /\ GetDateValue([date_posted |-> TxtYesterday]) = 1
    /\ \A n \in 0..MaxAge :
          /\ GetDateValue([date_posted |-> DaysText(n)]) = n
          /\ GetDateValue([date_posted |-> WeeksText(n)]) = 7 * n
          /\ GetDateValue([date_posted |-> MonthsText(n)]) = 30 * n
    /\ \A t \in {TxtEmpty, TxtRecently, TxtIsoDate} : GetDateValue([date_posted |-> t]) = 9999

\* C9: sort_by_date returns a permutation of its input whose recency buckets
\* (0 for just now / today / hours ago, 1 for yesterday, N for N days ago,
\* 7*N for weeks, 30*N for months, 9999 for unrecognised text) never decrease
\* along the list when sort_order is 'asc' in any letter case, and never
\* increase for every other sort_order.
C9_SortedPermutation ==
    sortPc = "done" =>
        /\ Len(sortOut) = Len(sortIn)
        /\ {sortOut[i] : i \in 1..Len(sortOut)} = {sortIn[i] : i \in 1..Len(sortIn)}
        /\ \A i \in 1..(Len(sortOut) - 1) :
              IF Lower(sortOrder) = TxtAsc
              THEN GetDateValue(sortOut[i]) <= GetDateValue(sortOut[i + 1])
              ELSE GetDateValue(sortOut[i]) >= GetDateValue(sortOut[i + 1])
        /\ BucketTable

\* three jobs of three different buckets, given in another order, were sorted
\* with sort_order 'ASC'
C9_Witness ==
    /\ sortPc = "done"
    /\ sortOrder = <<"A", "S", "C">>
    /\ Len(sortIn) = 3
    /\ sortOut # sortIn
    /\ GetDateValue(sortOut[1]) < GetDateValue(sortOut[2])
    /\ GetDateValue(sortOut[2]) < GetDateValue(sortOut[3])

\* C19: with sort_order 'desc' the results are ordered newest first: a job
\* with a smaller age bucket (0 for 'today') is placed before a job with a
\* larger one (21 for '3 weeks ago', 9999 for an unrecognised date).
C19_DescNewestFirst ==
    (sortPc = "done" /\ sortOrder = <<"d", "e", "s", "c">>) =>
        \A i, j \in 1..Len(sortOut) :
            GetDateValue(sortOut[i]) < GetDateValue(sortOut[j]) => i < j

----------------------------------------------------------------------------
(* Search orchestration: ScraperFactory, BaseScraper, JobSearchService     *)

\* bound on the number of jobs one site's search returns
MaxSiteJobs == 1

SiteLinkedin == <<"l", "i", "n", "k", "e", "d", "i", "n">>
SiteIndeed == <<"i", "n", "d", "e", "e", "d">>
SiteGlassdoor == <<"g", "l", "a", "s", "s", "d", "o", "o", "r">>
SiteZipRecruiter == <<"z", "i", "p", "_", "r", "e", "c", "r", "u", "i", "t", "e", "r">>
SiteGoogle == <<"g", "o", "o", "g", "l", "e">>
\* a site served by a scraper added with register_scraper, and one no
\* scraper serves
SiteSeek == <<"s", "e", "e", "k">>
SiteMonster == <<"m", "o", "n", "s", "t", "e", "r">>

\* JobspyScraper.SUPPORTED_SITES
SUPPORTED_SITES ==
    <<SiteLinkedin, SiteIndeed, SiteGlassdoor, SiteZipRecruiter, SiteGoogle>>

\* ScraperFactory._scrapers: the JobspyScraper of __init__ and a scraper that
\* was registered afterwards, which implements IJobScraper directly
Scrapers == <<"JobspyScraper", "RegisteredScraper">>

\* scraper.supports_site(site_name): JobspyScraper's, and those of the
\* scrapers that can be registered (the factory names a CustomLinkedInScraper)
SupportsSite(scraper, site_name) ==
    CASE scraper = "JobspyScraper" ->
            \E i \in 1..Len(SUPPORTED_SITES) : SUPPORTED_SITES[i] = Lower(site_name)
      [] scraper = "CustomLinkedInScraper" -> Lower(site_name) = SiteLinkedin
      [] OTHER -> Lower(site_name) = SiteSeek

\* ScraperFactory.get_scraper(site_name) on a factory whose _scrapers is
\* scrapers: the first scraper that supports the site, or SiteNotSupportedError
GetScraperOf(scrapers, site_name) ==
    IF \E i \in 1..Len(scrapers) : SupportsSite(scrapers[i], site_name)
    THEN [exc |-> "none",
          scraper |-> scrapers[CHOOSE i \in 1..Len(scrapers) :
                                  /\ SupportsSite(scrapers[i], site_name)
                                  /\ \A j \in 1..(i - 1) :
                                        ~SupportsSite(scrapers[j], site_name)]]
    ELSE [exc |-> "SiteNotSupportedError", scraper |-> "none"]

\* get_scrapers_for_sites without its except clause
RECURSIVE GetScrapersForSitesNoExcept(_, _)
GetScrapersForSitesNoExcept(scrapers, site_names) ==
    IF site_names = <<>> THEN [exc |-> "none", pairs |-> <<>>]
    ELSE LET got == GetScraperOf(scrapers, Head(site_names))
             rest == GetScrapersForSitesNoExcept(scrapers, Tail(site_names))
         IN IF got.exc # "none" THEN [exc |-> got.exc, pairs |-> <<>>]
            ELSE IF rest.exc # "none" THEN rest
            ELSE [exc |-> "none",
                  pairs |-> << <<Head(site_names), got.scraper>> >> \o rest.pairs]

\* ScraperFactory.get_scrapers_for_sites(site_names) on a factory whose
\* _scrapers is scrapers
RECURSIVE GetScrapersForSitesOf(_, _)
GetScrapersForSitesOf(scrapers, site_names) ==
    IF site_names = <<>> THEN [exc |-> "none", pairs |-> <<>>]
    ELSE LET got == GetScraperOf(scrapers, Head(site_names))
             rest == GetScrapersForSitesOf(scrapers, Tail(site_names))
         IN [exc |-> rest.exc,
             pairs |-> (IF got.exc = "none"
                        THEN << <<Head(site_names), got.scraper>> >>
                        ELSE <<>>) \o rest.pairs]

\* ScraperFactory.get_scraper(site_name)
GetScraper(site_name) == GetScraperOf(Scrapers, site_name)

\* ScraperFactory.get_scrapers_for_sites(site_names)
GetScrapersForSites(site_names) == GetScrapersForSitesOf(Scrapers, site_names).pairs

\* ScraperFactory.get_all_supported_sites(): only scrapers with a
\* SUPPORTED_SITES attribute contribute; sorted
GetAllSupportedSites ==
    <<SiteGlassdoor, SiteGoogle, SiteIndeed, SiteLinkedin, SiteZipRecruiter>>

NoSites == <<"None">>       \* site_name=None

\* JobSearchService._determine_sites(site_name), site_name being None or a
\* list of names
DetermineSites(site_name) ==
    IF site_name = NoSites THEN GetAllSupportedSites
    ELSE [i \in 1..Len(site_name) |-> Lower(site_name[i])]

\* BaseScraper.search: what search does given what _execute_search did
BaseSearch(executed) ==
    IF executed.raised THEN [raised |-> FALSE, jobs |-> <<>>] ELSE executed

\* scraper.search(site_params): JobspyScraper inherits BaseScraper.search, a
\* registered IJobScraper has a search of its own, which may raise
ScraperSearch(scraper, executed) ==
    IF scraper = "JobspyScraper" THEN BaseSearch(executed) ELSE executed

\* JobResultProcessor.enrich_results(results, search_term)
EnrichResults(results, search_term) ==
    [i \in 1..Len(results) |->
        LET job == results[i] IN
        [k \in DOMAIN job \cup {"relevance_score", "title", "company", "location",
                                "date_posted"} |->
            CASE k = "relevance_score" -> CalculateRelevance(job, search_term)
              [] k = "title" -> Get(job, "title", <<"U", "n", "k", "n", "o", "w", "n", " ", "T", "i", "t", "l", "e">>)
              [] k = "company" -> Get(job, "company", <<"U", "n", "k", "n", "o", "w", "n", " ", "C", "o", "m", "p", "a", "n", "y">>)
              [] k = "location" -> Get(job, "location", <<"U", "n", "k", "n", "o", "w", "n", " ", "L", "o", "c", "a", "t", "i", "o", "n">>)
              [] k = "date_posted" -> Get(job, "date_posted", TxtRecently)
              [] OTHER -> job[k]]]

NoSortOrder == <<"None">>   \* sort_order=None; "" is falsy as well

\* JobSearchService._post_process_results(results, params)
PostProcessResults(results, params) ==
    LET unique == FilterDuplicates(results)
        enriched == EnrichResults(unique, params.search_term)
        sorted == IF params.sort_order # NoSortOrder /\ params.sort_order # <<>>
                  THEN SortByDate(enriched, params.sort_order)
                  ELSE enriched
    IN IF params.num_jobs # 0
       THEN SubSeq(sorted, 1, Min(params.num_jobs, Len(sorted)))
       ELSE sorted

\* the loop of search_jobs with an except clause that re-raises
LoopOnExceptionRaise == "raise"

\* what the for loop of search_jobs does when scraper.search raises: the
\* except clause logs and continues with the next site
LoopOnException == "continue"

\* JobspyScraper._convert_jobspy_row: the company of a row that names none
TxtUnknownCompany ==
    <<"U", "n", "k", "n", "o", "w", "n", " ", "C", "o", "m", "p", "a", "n", "y">>

\* the jobs sites return: two postings, the older one listed first; two sites
\* returning the same posting is how duplicates arise. _convert_jobspy_row
\* gives every job all its keys.
SrchJobs ==
    {[url |-> <<"u">>, title |-> <<"a">>, company |-> <<"c">>,
      description |-> <<"a">>, location |-> <<"x">>, date_posted |-> DaysText(2)],
     [url |-> <<"v">>, title |-> <<"b">>, company |-> TxtUnknownCompany,
      description |-> <<>>, location |-> <<"x">>, date_posted |-> TxtToday]}

\* a job as a registered scraper may return it: a dict without the keys
\* company and location
SrchBareJob ==
    [url |-> <<"w">>, title |-> <<"b">>, description |-> <<>>,
     date_posted |-> TxtToday]

\* what JobspyScraper._execute_search can do: return a list of jobs or raise
Executions ==
    {[raised |-> FALSE, jobs |-> js] : js \in SeqsUpTo(SrchJobs, MaxSiteJobs)}
    \cup {[raised |-> TRUE, jobs |-> <<>>]}

\* what the search of a registered scraper can do
RegisteredExecutions ==
    Executions
    \cup {[raised |-> FALSE, jobs |-> js] :
             js \in SeqsUpTo(SrchJobs \cup {SrchBareJob}, MaxSiteJobs)}

ExecutionsOf(scraper) ==
    IF scraper = "JobspyScraper" THEN Executions ELSE RegisteredExecutions

\* the site_name values tried: lists of names and, once, None, which
\* searches all five supported sites
SrchSiteNames ==
    {<<SiteLinkedin>>, <<<<"I", "n", "d", "e", "e", "d">>>>, <<SiteSeek>>, <<SiteMonster>>,
     <<SiteLinkedin, SiteSeek>>, <<SiteSeek, SiteMonster, SiteIndeed>>,
     <<SiteSeek, SiteLinkedin, SiteSeek>>}

TxtDesc == <<"d", "e", "s", "c">>

SrchParamsSet ==
    [search_term : {<<"a">>}, site_name : SrchSiteNames,
     sort_order : {TxtDesc, TxtAsc, NoSortOrder}, num_jobs : {0, 1, 30}]
    \cup {[search_term |-> <<"a">>, site_name |-> NoSites,
           sort_order |-> TxtDesc, num_jobs |-> 30]}

InitSrchVars ==
    /\ srchParams \in SrchParamsSet
    /\ srchPairs = <<>>
    /\ srchAll = <<>>
    /\ srchLog = <<>>
    /\ srchResult = <<>>
    /\ srchPc = "start"

\* search_jobs up to the loop: the sites, their scrapers, and the two early
\* returns
BeginSearch ==
    /\ srchPc = "start"
    /\ LET sites_to_search == DetermineSites(srchParams.site_name)
           site_scraper_pairs == GetScrapersForSites(sites_to_search)
       IN IF sites_to_search = <<>> \/ site_scraper_pairs = <<>>
          THEN /\ srchPc' = "done"
               /\ srchResult' = <<>>
               /\ UNCHANGED srchPairs
          ELSE /\ srchPc' = "searching"
               /\ srchPairs' = site_scraper_pairs
               /\ UNCHANGED srchResult
    /\ UNCHANGED <<srchParams, srchAll, srchLog, nonSrchVars>>

\* one round of the loop: the next site is searched and its results are
\* added, or its exception is handled
SearchSite(executed) ==
    /\ srchPc = "searching"
    /\ srchPairs # <<>>
    /\ LET site_name == Head(srchPairs)[1]
           scraper == Head(srchPairs)[2]
           results == ScraperSearch(scraper, executed)
       IN /\ executed \in ExecutionsOf(scraper)
          /\ srchLog' = Append(srchLog, [site |-> site_name, executed |-> executed])
          /\ IF ~results.raised
             THEN /\ srchAll' = srchAll \o results.jobs
                  /\ srchPairs' = Tail(srchPairs)
                  /\ UNCHANGED <<srchPc, srchResult>>
             ELSE IF LoopOnException = "continue"
             THEN /\ srchPairs' = Tail(srchPairs)
                  /\ UNCHANGED <<srchAll, srchPc, srchResult>>
             ELSE \* the outer except clause raises JobScraperError
                  /\ srchPc' = "raised"
                  /\ UNCHANGED <<srchAll, srchPairs, srchResult>>
    /\ UNCHANGED <<srchParams, nonSrchVars>>

\* after the loop: the results are post-processed and returned
FinishSearch ==
    /\ srchPc = "searching"
    /\ srchPairs = <<>>
    /\ srchResult' = PostProcessResults(srchAll, srchParams)
    /\ srchPc' = "done"
    /\ UNCHANGED <<srchParams, srchPairs, srchAll, srchLog, nonSrchVars>>

InitSearch ==
    InitSrchVars /\ IdleAuth /\ IdleDd /\ IdleRel /\ IdleSort /\ IdleDb /\ IdleTsk
    /\ IdleFac
    /\ IdleExc
    /\ IdleLeg
    /\ IdleJob
    /\ IdleUsr

NextSearch ==
    \/ BeginSearch
    \/ \E executed \in RegisteredExecutions : SearchSite(executed)
    \/ FinishSearch

SpecSearch == InitSearch /\ [][NextSearch]_vars

----------------------------------------------------------------------------
(* Claims about search_jobs (checked under SpecSearch)                     *)

\* the jobs returned by the sites whose search did not fail, in site order
RECURSIVE JobsOfSucceeded(_)
JobsOfSucceeded(log) ==
    IF log = <<>> THEN <<>>
    ELSE (IF Head(log).executed.raised THEN <<>> ELSE Head(log).executed.jobs)
         \o JobsOfSucceeded(Tail(log))

C20_AtMostNumJobs ==
    (srchPc = "done" /\ srchLog # <<>>) =>
        LET unlimited == [srchParams EXCEPT !.num_jobs = Len(srchAll) + 1]
            full == PostProcessResults(srchAll, unlimited)
        IN /\ Len(srchResult) <= srchParams.num_jobs
           /\ srchResult = SubSeq(full, 1, Min(srchParams.num_jobs, Len(full)))

----------------------------------------------------------------------------
(* Database writes: the SQLAlchemy session and the operations that write   *)

\* bound on the ids of the rows written
MaxRows == 2

RowIds == 1..MaxRows

\* SessionLocal(): a session with nothing pending
NewSession == [pending |-> {}, txn |-> "active"]

\* db.add(obj), db.delete(obj), setattr on a loaded object: the change is
\* pending in the session until the next commit or rollback
SessionChange(s, kind, id) == [s EXCEPT !.pending = @ \cup {<<kind, id>>}]

\* db.add(obj) for one object per id
SessionAddAll(s, ids) == [s EXCEPT !.pending = @ \cup {<<"add", id>> : id \in ids}]

\* the rows once the pending changes are written
ApplyPending(rows, pending) ==
    [id \in DOMAIN rows |->
        IF <<"delete", id>> \in pending THEN FALSE
        ELSE IF <<"add", id>> \in pending THEN TRUE
        ELSE rows[id]]

\* db.commit(): dbOk says whether the database accepts the transaction.
\* Adding a row whose id is stored violates the primary key. A commit that
\* raises leaves the session's transaction inactive, with its changes, until
\* rollback() or close(); every later use of the session raises meanwhile.
SessionCommit(s, rows, dbOk) ==
    IF s.txn = "inactive"
    THEN [sess |-> s, rows |-> rows, exc |-> "PendingRollbackError"]
    ELSE IF \E c \in s.pending : c[1] = "add" /\ rows[c[2]]
    THEN [sess |-> [s EXCEPT !.txn = "inactive"], rows |-> rows,
          exc |-> "IntegrityError"]
    ELSE IF ~dbOk
    THEN [sess |-> [s EXCEPT !.txn = "inactive"], rows |-> rows,
          exc |-> "OperationalError"]
    ELSE [sess |-> NewSession, rows |-> ApplyPending(rows, s.pending),
          exc |-> "none"]

\* db.rollback()
SessionRollback(s) == NewSession

\* db.close()
SessionClose(s) == [pending |-> {}, txn |-> "closed"]

\* the common body of the writing operations: look the row up where the
\* operation changes or deletes one, make the change, commit
WriteThenCommit(s, rows, kind, id, dbOk) ==
    IF kind # "add" /\ s.txn = "inactive"
    THEN [sess |-> s, rows |-> rows, exc |-> "PendingRollbackError"]
    ELSE IF kind # "add" /\ ~rows[id]
    THEN [sess |-> s, rows |-> rows, exc |-> "not_found"]
    ELSE SessionCommit(SessionChange(s, kind, id), rows, dbOk)

\* `except Exception: db.rollback(); raise <as>` around a body that did r
RolledBack(r, as) ==
    IF r.exc = "none" THEN r
    ELSE [sess |-> SessionRollback(r.sess), rows |-> r.rows, exc |-> as]

\* JobRepository.create
RepositoryCreate(s, rows, id, dbOk) ==
    RolledBack(WriteThenCommit(s, rows, "add", id, dbOk), "DatabaseError")

\* JobRepository.update: returns None for an id that is not stored
RepositoryUpdate(s, rows, id, dbOk) ==
    LET r == WriteThenCommit(s, rows, "update", id, dbOk)
    IN IF r.exc = "not_found" THEN [r EXCEPT !.exc = "none"]
       ELSE RolledBack(r, "DatabaseError")

\* JobRepository.delete: returns False for an id that is not stored
RepositoryDelete(s, rows, id, dbOk) ==
    LET r == WriteThenCommit(s, rows, "delete", id, dbOk)
    IN IF r.exc = "not_found" THEN [r EXCEPT !.exc = "none"]
       ELSE RolledBack(r, "DatabaseError")

\* the users bulk_create is called for
BulkUsers == {"auth0|a", "auth0|b"}

\* the batches bulk_create is given: job_data dicts, named by their row ids
BulkBatches == {<<>>} \cup {<<id>> : id \in RowIds}
                      \cup {<<a, b>> : <<a, b>> \in {p \in RowIds \X RowIds : p[1] # p[2]}}

\* created_jobs of bulk_create: one Job per job_data, in the order of the
\* input, with job_data["user_id"] = user_id
CreatedJobs(jobs, user_id) ==
    [i \in 1..Len(jobs) |-> [id |-> jobs[i], user_id |-> user_id]]

\* `for job in created_jobs: self.db.refresh(job)`: one SELECT per job, in
\* a new transaction after the commit; refreshOk says whether the database
\* answers them. r is what the commit did.
SessionRefreshAll(r, jobs, refreshOk) ==
    IF r.exc # "none" \/ jobs = <<>> \/ refreshOk THEN r
    ELSE [r EXCEPT !.sess.txn = "inactive", !.exc = "OperationalError"]

\* the body of bulk_create's try block: add every job, commit, refresh
BulkCreateBody(s, rows, jobs, dbOk, refreshOk) ==
    LET ids == {jobs[i] : i \in 1..Len(jobs)}
    IN SessionRefreshAll(SessionCommit(SessionAddAll(s, ids), rows, dbOk),
                         jobs, refreshOk)

\* JobRepository.bulk_create: ret is the list it returns
RepositoryBulkCreate(s, rows, jobs, user_id, dbOk, refreshOk) ==
    LET r == RolledBack(BulkCreateBody(s, rows, jobs, dbOk, refreshOk),
                        "DatabaseError")
    IN [sess |-> r.sess, rows |-> r.rows, exc |-> r.exc,
        ret |-> IF r.exc = "none" THEN CreatedJobs(jobs, user_id) ELSE <<>>]

\* main.py create_job, for job_data without a user_id
MainCreateJob(s, rows, id, dbOk) ==
    RolledBack(WriteThenCommit(s, rows, "add", id, dbOk), "HTTPException")

\* main.py update_job: the lookup and the 404 are outside the try block
MainUpdateJob(s, rows, id, dbOk) ==
    LET r == WriteThenCommit(s, rows, "update", id, dbOk)
    IN IF s.txn = "inactive" \/ ~rows[id] THEN r
       ELSE RolledBack(r, "HTTPException")

\* main.py delete_job: the 404 is raised inside the try block
MainDeleteJob(s, rows, id, dbOk) ==
    RolledBack(WriteThenCommit(s, rows, "delete", id, dbOk), "HTTPException")

\* routes/job.py create_job
RoutesCreateJob(s, rows, id, dbOk) == WriteThenCommit(s, rows, "add", id, dbOk)

\* ProfileService.create_profile
CreateProfile(s, rows, id, dbOk) == WriteThenCommit(s, rows, "add", id, dbOk)

\* ProfileService.update_profile
UpdateProfile(s, rows, id, dbOk) == WriteThenCommit(s, rows, "update", id, dbOk)

\* ProfileService.upload_resume, for a user with a profile
UploadResume(s, rows, id, dbOk) == WriteThenCommit(s, rows, "add", id, dbOk)

\* ProfileService.delete_resume
DeleteResume(s, rows, id, dbOk) == WriteThenCommit(s, rows, "delete", id, dbOk)

\* scraper.search_jobs(search_params) as the tasks call it, without await:
\* search_jobs is an `async def`, so the call runs none of it and gives a
\* coroutine object, whatever jobs the search would find
SearchJobsNotAwaited(found) == [type |-> "coroutine", found |-> found]

\* whether `for job_data in results` can start; it raises TypeError otherwise
Iterable(results) == results.type = "list"

\* the dict scrape_jobs_task returns
TaskCompleted(results) ==
    [status |-> "completed", results |-> results, count |-> Cardinality(results)]
TaskFailed == [status |-> "failed", error |-> "str(e)"]

\* scrape_jobs_task: a session of its own, one Job per result, one commit;
\* an exception is answered with status 'failed'; the session is closed in
\* the finally clause. ids are the jobs the search would find.
ScrapeJobsTask(rows, ids, dbOk) ==
    LET db == NewSession
        results == SearchJobsNotAwaited(ids)
    IN IF ~Iterable(results)
       THEN [sess |-> SessionClose(db), rows |-> rows, exc |-> "TypeError",
             ret |-> TaskFailed]
       ELSE LET r == SessionCommit(SessionAddAll(db, results.found), rows, dbOk)
            IN [sess |-> SessionClose(r.sess), rows |-> r.rows, exc |-> r.exc,
                ret |-> IF r.exc = "none" THEN TaskCompleted(results.found)
                        ELSE TaskFailed]

\* periodic_scrape_jobs: the same calls and session handling as
\* scrape_jobs_task, the exception only logged
PeriodicScrapeJobs(rows, ids, dbOk) ==
    LET db == NewSession
        results == SearchJobsNotAwaited(ids)
    IN IF ~Iterable(results)
       THEN [sess |-> SessionClose(db), rows |-> rows, exc |-> "TypeError"]
       ELSE LET r == SessionCommit(SessionAddAll(db, results.found), rows, dbOk)
            IN [sess |-> SessionClose(r.sess), rows |-> r.rows, exc |-> r.exc]

\* the exceptions a write raises
WriteErrors == {"IntegrityError", "OperationalError", "PendingRollbackError"}

InitDbVars ==
    /\ dbRows = [id \in RowIds |-> FALSE]
    /\ dbSess = NewSession
    /\ dbLast = [op |-> "none", exc |-> "none", write |-> "none", after |-> NewSession]

\* what dbLast records of an operation: body is what the operation's write
\* did before any handler saw it, r what the operation did as a whole
Ended(op, body, r) ==
    [op |-> op, exc |-> r.exc, write |-> body.exc, after |-> r.sess]

DbRepositoryCreate(id, dbOk) ==
    /\ dbSess.txn # "closed"
    /\ LET body == WriteThenCommit(dbSess, dbRows, "add", id, dbOk)
           r == RepositoryCreate(dbSess, dbRows, id, dbOk)
       IN /\ dbSess' = r.sess
          /\ dbRows' = r.rows
          /\ dbLast' = Ended("JobRepository.create", body, r)
    /\ UNCHANGED nonDbVars

DbRepositoryUpdate(id, dbOk) ==
    /\ dbSess.txn # "closed"
    /\ LET body == WriteThenCommit(dbSess, dbRows, "update", id, dbOk)
           r == RepositoryUpdate(dbSess, dbRows, id, dbOk)
       IN /\ dbSess' = r.sess
          /\ dbRows' = r.rows
          /\ dbLast' = Ended("JobRepository.update", body, r)
    /\ UNCHANGED nonDbVars

DbRepositoryDelete(id, dbOk) ==
    /\ dbSess.txn # "closed"
    /\ LET body == WriteThenCommit(dbSess, dbRows, "delete", id, dbOk)
           r == RepositoryDelete(dbSess, dbRows, id, dbOk)
       IN /\ dbSess' = r.sess
          /\ dbRows' = r.rows
          /\ dbLast' = Ended("JobRepository.delete", body, r)
    /\ UNCHANGED nonDbVars

DbRepositoryBulkCreate(jobs, user_id, dbOk, refreshOk) ==
    /\ dbSess.txn # "closed"
    /\ LET body == BulkCreateBody(dbSess, dbRows, jobs, dbOk, refreshOk)
           r == RepositoryBulkCreate(dbSess, dbRows, jobs, user_id, dbOk, refreshOk)
       IN /\ dbSess' = r.sess
          /\ dbRows' = r.rows
          /\ dbLast' = Ended("JobRepository.bulk_create", body, r)
                        @@ [jobs |-> jobs, user_id |-> user_id, ret |-> r.ret,
                            before |-> dbRows]
    /\ UNCHANGED nonDbVars

DbMainCreateJob(id, dbOk) ==
    /\ dbSess.txn # "closed"
    /\ LET body == WriteThenCommit(dbSess, dbRows, "add", id, dbOk)
           r == MainCreateJob(dbSess, dbRows, id, dbOk)
       IN /\ dbSess' = r.sess
          /\ dbRows' = r.rows
          /\ dbLast' = Ended("main.create_job", body, r)
    /\ UNCHANGED nonDbVars

DbMainUpdateJob(id, dbOk) ==
    /\ dbSess.txn # "closed"
    /\ LET body == WriteThenCommit(dbSess, dbRows, "update", id, dbOk)
           r == MainUpdateJob(dbSess, dbRows, id, dbOk)
       IN /\ dbSess' = r.sess
          /\ dbRows' = r.rows
          /\ dbLast' = Ended("main.update_job", body, r)
    /\ UNCHANGED nonDbVars

DbMainDeleteJob(id, dbOk) ==
    /\ dbSess.txn # "closed"
    /\ LET body == WriteThenCommit(dbSess, dbRows, "delete", id, dbOk)
           r == MainDeleteJob(dbSess, dbRows, id, dbOk)
       IN /\ dbSess' = r.sess
          /\ dbRows' = r.rows
          /\ dbLast' = Ended("main.delete_job", body, r)
    /\ UNCHANGED nonDbVars

DbRoutesCreateJob(id, dbOk) ==
    /\ dbSess.txn # "closed"
    /\ LET body == WriteThenCommit(dbSess, dbRows, "add", id, dbOk)
           r == RoutesCreateJob(dbSess, dbRows, id, dbOk)
       IN /\ dbSess' = r.sess
          /\ dbRows' = r.rows
          /\ dbLast' = Ended("routes.job.create_job", body, r)
    /\ UNCHANGED nonDbVars

DbCreateProfile(id, dbOk) ==
    /\ dbSess.txn # "closed"
    /\ LET body == WriteThenCommit(dbSess, dbRows, "add", id, dbOk)
           r == CreateProfile(dbSess, dbRows, id, dbOk)
       IN /\ dbSess' = r.sess
          /\ dbRows' = r.rows
          /\ dbLast' = Ended("ProfileService.create_profile", body, r)
    /\ UNCHANGED nonDbVars

DbUpdateProfile(id, dbOk) ==
    /\ dbSess.txn # "closed"
    /\ LET body == WriteThenCommit(dbSess, dbRows, "update", id, dbOk)
           r == UpdateProfile(dbSess, dbRows, id, dbOk)
       IN /\ dbSess' = r.sess
          /\ dbRows' = r.rows
          /\ dbLast' = Ended("ProfileService.update_profile", body, r)
    /\ UNCHANGED nonDbVars

DbUploadResume(id, dbOk) ==
    /\ dbSess.txn # "closed"
    /\ LET body == WriteThenCommit(dbSess, dbRows, "add", id, dbOk)
           r == UploadResume(dbSess, dbRows, id, dbOk)
       IN /\ dbSess' = r.sess
          /\ dbRows' = r.rows
          /\ dbLast' = Ended("ProfileService.upload_resume", body, r)
    /\ UNCHANGED nonDbVars

DbDeleteResume(id, dbOk) ==
    /\ dbSess.txn # "closed"
    /\ LET body == WriteThenCommit(dbSess, dbRows, "delete", id, dbOk)
           r == DeleteResume(dbSess, dbRows, id, dbOk)
       IN /\ dbSess' = r.sess
          /\ dbRows' = r.rows
          /\ dbLast' = Ended("ProfileService.delete_resume", body, r)
    /\ UNCHANGED nonDbVars

\* runs in a Celery worker, on a session of its own
DbScrapeJobsTask(ids, dbOk) ==
    /\ LET r == ScrapeJobsTask(dbRows, ids, dbOk)
           body == [exc |-> IF r.exc \in WriteErrors THEN r.exc ELSE "none"]
       IN /\ dbRows' = r.rows
          /\ dbLast' = Ended("scrape_jobs_task", body, r)
                        @@ [ret |-> r.ret, found |-> ids,
                            accepted |-> dbOk /\ \A id \in ids : ~dbRows[id]]
    /\ UNCHANGED <<dbSess, nonDbVars>>

\* runs in a Celery worker, on a session of its own
DbPeriodicScrapeJobs(ids, dbOk) ==
    /\ LET r == PeriodicScrapeJobs(dbRows, ids, dbOk)
           body == [exc |-> IF r.exc \in WriteErrors THEN r.exc ELSE "none"]
       IN /\ dbRows' = r.rows
          /\ dbLast' = Ended("periodic_scrape_jobs", body, r)
    /\ UNCHANGED <<dbSess, nonDbVars>>

\* get_db after the response: db.close()
GetDbClose ==
    /\ dbSess.txn # "closed"
    /\ dbSess' = SessionClose(dbSess)
    /\ UNCHANGED <<dbRows, dbLast, nonDbVars>>

\* get_db for the next request: SessionLocal()
GetDbOpen ==
    /\ dbSess.txn = "closed"
    /\ dbSess' = NewSession
    /\ UNCHANGED <<dbRows, dbLast, nonDbVars>>

InitDb ==
    InitDbVars /\ IdleAuth /\ IdleDd /\ IdleRel /\ IdleSort /\ IdleSrch /\ IdleTsk
    /\ IdleFac
    /\ IdleExc
    /\ IdleLeg
    /\ IdleJob
    /\ IdleUsr

NextDb ==
    \/ \E id \in RowIds, dbOk \in BOOLEAN : DbRepositoryCreate(id, dbOk)
    \/ \E id \in RowIds, dbOk \in BOOLEAN : DbRepositoryUpdate(id, dbOk)
    \/ \E id \in RowIds, dbOk \in BOOLEAN : DbRepositoryDelete(id, dbOk)
    \/ \E jobs \in BulkBatches, user_id \in BulkUsers, dbOk \in BOOLEAN,
          refreshOk \in BOOLEAN :
          DbRepositoryBulkCreate(jobs, user_id, dbOk, refreshOk)
    \/ \E id \in RowIds, dbOk \in BOOLEAN : DbMainCreateJob(id, dbOk)
    \/ \E id \in RowIds, dbOk \in BOOLEAN : DbMainUpdateJob(id, dbOk)
    \/ \E id \in RowIds, dbOk \in BOOLEAN : DbMainDeleteJob(id, dbOk)
    \/ \E id \in RowIds, dbOk \in BOOLEAN : DbRoutesCreateJob(id, dbOk)
    \/ \E id \in RowIds, dbOk \in BOOLEAN : DbCreateProfile(id, dbOk)
    \/ \E id \in RowIds, dbOk \in BOOLEAN : DbUpdateProfile(id, dbOk)
    \/ \E id \in RowIds, dbOk \in BOOLEAN : DbUploadResume(id, dbOk)
    \/ \E id \in RowIds, dbOk \in BOOLEAN : DbDeleteResume(id, dbOk)
    \/ \E ids \in SUBSET RowIds, dbOk \in BOOLEAN : DbScrapeJobsTask(ids, dbOk)
    \/ \E ids \in SUBSET RowIds, dbOk \in BOOLEAN : DbPeriodicScrapeJobs(ids, dbOk)
    \/ GetDbClose
    \/ GetDbOpen

SpecDb == InitDb /\ [][NextDb]_vars

----------------------------------------------------------------------------
(* Claims about database writes (checked under SpecDb)                     *)

\* C8: every operation that writes to the database rolls the session back
\* when the write raises: once such an operation has ended, the session it
\* used holds no pending change and no failed transaction.
C8_FailedWriteRolledBack ==
    dbLast.write \in WriteErrors =>
        /\ dbLast.after.pending = {}
        /\ dbLast.after.txn # "inactive"

\* C16: when the scraper finds jobs and the database accepts them,
\* scrape_jobs_task stores one Job row per scraped result and returns status
\* 'completed' with count equal to the number of results; it returns status
\* 'failed' only when the database raised (search_jobs itself catches every
\* exception of the search).
C16_ScrapedJobsStored ==
    dbLast.op = "scrape_jobs_task" =>
        /\ (dbLast.found # {} /\ dbLast.accepted) =>
              /\ dbLast.ret.status = "completed"
              /\ dbLast.ret.count = Cardinality(dbLast.found)
              /\ \A id \in dbLast.found : dbRows[id]
        /\ dbLast.ret.status = "failed" => dbLast.write \in WriteErrors

\* C25: JobRepository.bulk_create is all-or-nothing: either every job of
\* the batch is stored with user_id set to the given user and the created
\* jobs are returned in input order, or the call raises DatabaseError and no
\* job of the batch is stored.
C25_BulkCreateAllOrNothing ==
    dbLast.op = "JobRepository.bulk_create" =>
        \/ /\ dbLast.exc = "none"
           /\ \A i \in 1..Len(dbLast.jobs) : dbRows[dbLast.jobs[i]]
           /\ dbLast.ret = CreatedJobs(dbLast.jobs, dbLast.user_id)
        \/ /\ dbLast.exc = "DatabaseError"
           /\ dbRows = dbLast.before

----------------------------------------------------------------------------
(* Scraping tasks: the trigger and status endpoints of main.py             *)

\* bound on the ids handed out (uuid4 values and Celery task ids)
MaxIds == 4

\* bound on the search terms of one scrape request
MaxTerms == 2

TaskIds == 1..MaxIds
EmptyId == 0    \* the empty string as a task id

\* d[key] = value
Put(d, key, value) ==
    [k \in DOMAIN d \cup {key} |-> IF k = key THEN value ELSE d[k]]

\* JobScraperBackgroundTask.get_task_status(task_id)
GetTaskStatus(active_tasks, task_id) ==
    IF task_id = EmptyId THEN [status |-> "not_found"]
    ELSE IF task_id \notin DOMAIN active_tasks THEN [status |-> "not_found"]
    ELSE active_tasks[task_id]

\* bound on the number of jobs a background search returns
MaxResults == 2

\* what scraper.search_jobs(params) can do in _run_job_search: return a list
\* of jobs or raise
SearchOutcomes ==
    {[raised |-> FALSE, results |-> [i \in 1..n |-> "job"]] : n \in 0..MaxResults}
    \cup {[raised |-> TRUE, results |-> <<>>]}

\* BackgroundTasks runs a callable after the response: an `async def` on the
\* event loop, a plain `def` in a worker thread of the threadpool
BackgroundThread(isAsync) == IF isAsync THEN "event loop" ELSE "threadpool"

\* asyncio.create_task(coro) needs the running event loop of the calling
\* thread; without one it raises RuntimeError
CreateTaskOk(thread) == thread = "event loop"

\* start_job_search: the entry written first, before the task is created
ProcessingEntry ==
    [status |-> "processing", progress |-> 0, results |-> <<>>, task |-> "None"]

\* JobScraperBackgroundTask.start_job_search(task_id, params): the entry is
\* 'processing', or 'failed' when asyncio.create_task raises
StartJobSearchEntry(createOk) ==
    IF createOk
    THEN [ProcessingEntry EXCEPT !.task = "task"]
    ELSE [status |-> "failed", error |-> "str(e)", results |-> <<>>]

\* JobScraperBackgroundTask._run_job_search: the entry once the search ended
RunJobSearchEntry(outcome) ==
    IF ~outcome.raised
    THEN [status |-> "completed", results |-> outcome.results,
          count |-> Len(outcome.results)]
    ELSE [status |-> "failed", error |-> "str(e)", results |-> <<>>]

\* an active_tasks that outlives the process
ActiveTasksPersisted(old) == old

\* JobScraperBackgroundTask.__init__: self.active_tasks = {}, whatever a
\* previous process held
ActiveTasksInit(old) == [id \in {} |-> [status |-> "processing"]]

\* get_scraped_jobs(task_id): the response
GetScrapedJobsResponse(active_tasks, task_id) ==
    LET task_status == GetTaskStatus(active_tasks, task_id)
    IN IF task_status.status = "not_found"
       THEN [code |-> 404, detail |-> "Task not found", body |-> task_status]
       ELSE [code |-> 200, detail |-> "", body |-> task_status]

InitTskVars ==
    /\ tskNext = 1
    /\ tskCelery = [id \in {} |-> "PENDING"]
    /\ tskActive = ActiveTasksInit(<<>>)
    /\ tskQueued = {}
    /\ tskIssued = [scrape |-> {}, advanced |-> {}, registered |-> {}, lost |-> {},
                    searched |-> {}]
    /\ tskLast = [task_id |-> EmptyId, asked |-> FALSE,
                  response |-> [code |-> 200, detail |-> "", body |-> [status |-> "none"]]]

\* POST /api/jobs/scrape with n search terms: per term a uuid4 is passed to
\* scrape_jobs_task.delay as its first argument and the id of the Celery
\* task that delay returns is what the response lists
ScrapeJobs(n) ==
    /\ tskNext + 2 * n - 1 <= MaxIds
    /\ LET task_ids == {tskNext + 2 * i - 1 : i \in 1..n}
       IN /\ tskCelery' = [id \in DOMAIN tskCelery \cup task_ids |->
                              IF id \in task_ids THEN "PENDING" ELSE tskCelery[id]]
          /\ tskIssued' = [tskIssued EXCEPT !.scrape = @ \cup task_ids]
    /\ tskNext' = tskNext + 2 * n
    /\ UNCHANGED <<tskActive, tskQueued, tskLast, nonTskVars>>

\* a Celery worker runs scrape_jobs_task to its end
CeleryTaskEnds(id, state) ==
    /\ id \in DOMAIN tskCelery
    /\ tskCelery[id] = "PENDING"
    /\ tskCelery' = [tskCelery EXCEPT ![id] = state]
    /\ UNCHANGED <<tskNext, tskActive, tskQueued, tskIssued, tskLast, nonTskVars>>

\* POST /api/jobs/advanced-search: a uuid4 is the task id; start_job_search
\* is queued to run after the response
AdvancedSearch ==
    /\ tskNext <= MaxIds
    /\ tskQueued' = tskQueued \cup {tskNext}
    /\ tskIssued' = [tskIssued EXCEPT !.advanced = @ \cup {tskNext}]
    /\ tskNext' = tskNext + 1
    /\ UNCHANGED <<tskCelery, tskActive, tskLast, nonTskVars>>

\* the queued start_job_search(task_id, params) begins, in the thread
\* BackgroundTasks gives a plain `def`: the task is registered as processing
StartJobSearch(task_id) ==
    /\ task_id \in tskQueued
    /\ tskQueued' = tskQueued \ {task_id}
    /\ tskActive' = Put(tskActive, task_id, ProcessingEntry)
    /\ tskIssued' = [tskIssued EXCEPT !.registered = @ \cup {task_id}]
    /\ UNCHANGED <<tskNext, tskCelery, tskLast, nonTskVars>>

\* start_job_search goes on to asyncio.create_task(self._run_job_search(...))
\* and, where that raises, to its except clause
CreateTask(task_id) ==
    /\ task_id \in DOMAIN tskActive
    /\ tskActive[task_id] = ProcessingEntry
    /\ tskActive' = Put(tskActive, task_id,
                        StartJobSearchEntry(CreateTaskOk(BackgroundThread(FALSE))))
    /\ UNCHANGED <<tskNext, tskCelery, tskQueued, tskIssued, tskLast, nonTskVars>>

\* _run_job_search(task_id, params), once create_task has scheduled it, runs
\* to its end; no call in the program gets that far, so it is no step of
\* NextTasks
RunJobSearch(task_id, outcome) ==
    /\ task_id \in DOMAIN tskActive
    /\ tskActive[task_id] = StartJobSearchEntry(TRUE)
    /\ tskActive' = Put(tskActive, task_id, RunJobSearchEntry(outcome))
    /\ tskIssued' = [tskIssued EXCEPT !.searched = @ \cup {task_id}]
    /\ UNCHANGED <<tskNext, tskCelery, tskQueued, tskLast, nonTskVars>>

\* GET /api/jobs/scrape/{task_id}
GetScrapedJobs(task_id) ==
    /\ tskLast' = [task_id |-> task_id, asked |-> TRUE,
                   response |-> GetScrapedJobsResponse(tskActive, task_id)]
    /\ UNCHANGED <<tskNext, tskCelery, tskActive, tskQueued, tskIssued, nonTskVars>>

\* the API process is restarted: the module is imported again and the
\* singleton job_scraper_background is constructed anew; the queued
\* background calls and the running searches end with the old process, the
\* Celery tasks live in the broker
Restart ==
    /\ tskActive' = ActiveTasksInit(tskActive)
    /\ tskQueued' = {}
    /\ tskIssued' = [tskIssued EXCEPT !.lost = @ \cup DOMAIN tskActive]
    /\ UNCHANGED <<tskNext, tskCelery, tskLast, nonTskVars>>

InitTasks ==
    InitTskVars /\ IdleAuth /\ IdleDd /\ IdleRel /\ IdleSort /\ IdleSrch /\ IdleDb
    /\ IdleFac
    /\ IdleExc
    /\ IdleLeg
    /\ IdleJob
    /\ IdleUsr

NextTasks ==
    \/ \E n \in 1..MaxTerms : ScrapeJobs(n)
    \/ \E id \in TaskIds, state \in {"SUCCESS", "FAILURE"} : CeleryTaskEnds(id, state)
    \/ AdvancedSearch
    \/ \E task_id \in TaskIds : StartJobSearch(task_id)
    \/ \E task_id \in TaskIds : CreateTask(task_id)
    \/ \E task_id \in TaskIds \cup {EmptyId} : GetScrapedJobs(task_id)
    \/ Restart

SpecTasks == InitTasks /\ [][NextTasks]_vars

----------------------------------------------------------------------------
(* Claims about the scraping tasks (checked under SpecTasks)               *)

\* C10: a task id returned by POST /api/jobs/scrape can afterwards be queried
\* at GET /api/jobs/scrape/{task_id}: the answer reports the task's state
\* (processing, completed or failed) and is not 'Task not found'.
C10_TriggeredTaskFound ==
    (tskLast.asked /\ tskLast.task_id \in tskIssued.scrape) =>
        /\ tskLast.response.detail # "Task not found"
        /\ tskLast.response.body.status \in {"processing", "completed", "failed"}

\* C11: task status lives only in the in-memory active_tasks map: after a
\* restart of the process get_task_status answers not_found for every task
\* id registered before the restart, whatever state the task was in, and it
\* answers not_found for the empty id and for every id never registered.
C11_StatusLostOnRestart ==
    /\ \A id \in tskIssued.lost :
          GetTaskStatus(tskActive, id) = [status |-> "not_found"]
    /\ GetTaskStatus(tskActive, EmptyId) = [status |-> "not_found"]
    /\ \A id \in TaskIds \ tskIssued.registered :
          GetTaskStatus(tskActive, id) = [status |-> "not_found"]

\* three tasks, failed or still processing, were registered when the
\* process restarted, and the status of one of them was asked for afterwards
C11_Witness ==
    /\ Cardinality(tskIssued.lost) >= 3
    /\ tskLast.asked
    /\ tskLast.task_id \in tskIssued.lost
    /\ tskLast.response.body.status = "not_found"

\* C17: a task started through the advanced-search endpoint is 'processing'
\* from its registration until its search ends, and then 'completed' with
\* count equal to the number of results, or 'failed' with an error text: a
\* task that is no longer 'processing' is one whose search has ended.
C17_ProcessingUntilSearchEnds ==
    \A id \in tskIssued.advanced \cap DOMAIN tskActive :
        /\ tskActive[id].status \in {"processing", "completed", "failed"}
        /\ tskActive[id].status = "completed" =>
              tskActive[id].count = Len(tskActive[id].results)
        /\ tskActive[id].status # "processing" => id \in tskIssued.searched

----------------------------------------------------------------------------
(* ScraperFactory: registering scrapers and choosing them for sites        *)

\* bound on the length of ScraperFactory._scrapers
MaxScrapers == 3

\* bound on the length of the site_names list
MaxSiteNames == 2

\* the site names asked for: supported by JobspyScraper in lower and in
\* mixed case, supported by a registered scraper only, supported by none
FacSiteNames ==
    {SiteLinkedin, <<"L", "i", "n", "k", "e", "d", "I", "n">>, SiteSeek, SiteMonster}

\* the scrapers that register_scraper is called with
RegisteredScrapers == {"RegisteredScraper", "CustomLinkedInScraper"}

\* ScraperFactory.__init__
InitFacVars ==
    /\ facScrapers = <<"JobspyScraper">>
    /\ facLast = [op |-> "none", scrapers |-> <<>>, site_names |-> <<>>,
                  exc |-> "none", result |-> <<>>]

\* ScraperFactory.register_scraper(scraper)
RegisterScraper(scraper) ==
    /\ Len(facScrapers) < MaxScrapers
    /\ facScrapers' = Append(facScrapers, scraper)
    /\ UNCHANGED <<facLast, nonFacVars>>

\* a call of get_scraper(site_name)
CallGetScraper(site_name) ==
    /\ LET got == GetScraperOf(facScrapers, site_name)
       IN facLast' = [op |-> "get_scraper", scrapers |-> facScrapers,
                      site_names |-> <<site_name>>, exc |-> got.exc,
                      result |-> got.scraper]
    /\ UNCHANGED <<facScrapers, nonFacVars>>

\* a call of get_scrapers_for_sites(site_names)
CallGetScrapersForSites(site_names) ==
    /\ LET got == GetScrapersForSitesOf(facScrapers, site_names)
       IN facLast' = [op |-> "get_scrapers_for_sites", scrapers |-> facScrapers,
                      site_names |-> site_names, exc |-> got.exc,
                      result |-> got.pairs]
    /\ UNCHANGED <<facScrapers, nonFacVars>>

InitFactory ==
    InitFacVars /\ IdleAuth /\ IdleDd /\ IdleRel /\ IdleSort /\ IdleSrch /\ IdleDb
    /\ IdleTsk
    /\ IdleExc
    /\ IdleLeg
    /\ IdleJob
    /\ IdleUsr

NextFactory ==
    \/ \E scraper \in RegisteredScrapers : RegisterScraper(scraper)
    \/ \E site_name \in FacSiteNames : CallGetScraper(site_name)
    \/ \E site_names \in SeqsUpTo(FacSiteNames, MaxSiteNames) :
          CallGetScrapersForSites(site_names)

SpecFactory == InitFactory /\ [][NextFactory]_vars

----------------------------------------------------------------------------
(* Claims about the scraper factory (checked under SpecFactory)            *)

\* some scraper of the list supports the site
Supported(scrapers, site_name) ==
    \E i \in 1..Len(scrapers) : SupportsSite(scrapers[i], site_name)

\* the names of the list that some scraper supports, in input order
RECURSIVE SupportedNames(_, _)
SupportedNames(scrapers, site_names) ==
    IF site_names = <<>> THEN <<>>
    ELSE (IF Supported(scrapers, Head(site_names)) THEN <<Head(site_names)>> ELSE <<>>)
         \o SupportedNames(scrapers, Tail(site_names))

\* C12: get_scrapers_for_sites returns, in input order, exactly one
\* (site, scraper) pair for each input name that some registered scraper
\* supports, the scraper of each pair being a registered one that supports
\* the site; unsupported names are skipped without raising; get_scraper on
\* an unsupported name raises SiteNotSupportedError.
C12_PairsForSupportedSites ==
    /\ facLast.op = "get_scrapers_for_sites" =>
          LET names == SupportedNames(facLast.scrapers, facLast.site_names)
              pairs == facLast.result
          IN /\ facLast.exc = "none"
             /\ Len(pairs) = Len(names)
             /\ \A i \in 1..Len(pairs) :
                   /\ pairs[i][1] = names[i]
                   /\ SupportsSite(pairs[i][2], pairs[i][1])
                   /\ \E k \in 1..Len(facLast.scrapers) :
                         facLast.scrapers[k] = pairs[i][2]
    /\ facLast.op = "get_scraper" =>
          IF Supported(facLast.scrapers, facLast.site_names[1])
          THEN /\ facLast.exc = "none"
               /\ SupportsSite(facLast.result, facLast.site_names[1])
          ELSE facLast.exc = "SiteNotSupportedError"

\* a list with an unsupported name before a supported one gave one pair
C12_Witness ==
    /\ facLast.op = "get_scrapers_for_sites"
    /\ facLast.site_names = <<SiteMonster, SiteSeek>>
    /\ facLast.result = << <<SiteSeek, "RegisteredScraper">> >>

----------------------------------------------------------------------------
(* Application exceptions: what their constructors set                     *)

\* the classes of app.exceptions
AppExceptionClasses ==
    {"ApplicationException", "AuthenticationError", "TokenExpiredError",
     "InvalidTokenError", "AuthorizationError", "JobScraperError",
     "SiteNotSupportedError", "ScrapingFailedError", "RateLimitExceededError",
     "JobParsingError", "InvalidURLError", "ParseFailedError", "DatabaseError",
     "EntityNotFoundError", "EntityAlreadyExistsError", "ValidationError",
     "InvalidParameterError", "ExternalServiceError", "NetworkError"}

\* the keyword arguments of a constructor call that names no status_code
\* (<<c>>: status_code=c)
NoStatus == <<>>

\* the status_code arguments tried
StatusArgs == {NoStatus, <<200>>, <<404>>, <<500>>}

\* the message (or other positional) arguments tried
MessageArgs == {"a", "b", "c", "d", "e", "f"}

\* the classes whose __init__ has a status_code parameter
AcceptsStatusCode(cls) == cls \in {"ApplicationException", "JobScraperError"}

\* the constructors with EntityNotFoundError leaving status_code as
\* DatabaseError.__init__ set it
RECURSIVE InitStatusNoOverride(_, _)
InitStatusNoOverride(cls, status_code) ==
    CASE cls = "ApplicationException" ->
            IF status_code = NoStatus THEN 500 ELSE status_code[1]
      [] cls = "AuthenticationError" -> InitStatusNoOverride("ApplicationException", <<401>>)
      [] cls = "TokenExpiredError" -> InitStatusNoOverride("AuthenticationError", NoStatus)
      [] cls = "InvalidTokenError" -> InitStatusNoOverride("AuthenticationError", NoStatus)
      [] cls = "AuthorizationError" -> InitStatusNoOverride("ApplicationException", <<403>>)
      [] cls = "JobScraperError" ->
            InitStatusNoOverride("ApplicationException",
                       IF status_code = NoStatus THEN <<500>> ELSE status_code)
      [] cls = "SiteNotSupportedError" -> InitStatusNoOverride("JobScraperError", <<400>>)
      [] cls = "ScrapingFailedError" -> InitStatusNoOverride("JobScraperError", <<500>>)
      [] cls = "RateLimitExceededError" -> InitStatusNoOverride("JobScraperError", <<429>>)
      [] cls = "JobParsingError" -> InitStatusNoOverride("ApplicationException", <<400>>)
      [] cls = "InvalidURLError" -> InitStatusNoOverride("JobParsingError", NoStatus)
      [] cls = "ParseFailedError" -> InitStatusNoOverride("JobParsingError", NoStatus)
      [] cls = "DatabaseError" -> InitStatusNoOverride("ApplicationException", <<500>>)
      [] cls = "EntityNotFoundError" -> InitStatusNoOverride("DatabaseError", NoStatus)
      [] cls = "EntityAlreadyExistsError" -> 409
      [] cls = "ValidationError" -> InitStatusNoOverride("ApplicationException", <<422>>)
      [] cls = "InvalidParameterError" -> InitStatusNoOverride("ValidationError", NoStatus)
      [] cls = "ExternalServiceError" -> InitStatusNoOverride("ApplicationException", <<503>>)
      [] cls = "NetworkError" -> InitStatusNoOverride("ApplicationException", <<503>>)

\* the status_code attribute once cls.__init__ has run, status_code being the
\* argument it was called with (NoStatus: none): each __init__ passes its own
\* code up to ApplicationException.__init__, which stores it;
\* EntityNotFoundError and EntityAlreadyExistsError assign theirs afterwards
RECURSIVE InitStatus(_, _)
InitStatus(cls, status_code) ==
    CASE cls = "ApplicationException" ->
            IF status_code = NoStatus THEN 500 ELSE status_code[1]
      [] cls = "AuthenticationError" -> InitStatus("ApplicationException", <<401>>)
      [] cls = "TokenExpiredError" -> InitStatus("AuthenticationError", NoStatus)
      [] cls = "InvalidTokenError" -> InitStatus("AuthenticationError", NoStatus)
      [] cls = "AuthorizationError" -> InitStatus("ApplicationException", <<403>>)
      [] cls = "JobScraperError" ->
            InitStatus("ApplicationException",
                       IF status_code = NoStatus THEN <<500>> ELSE status_code)
      [] cls = "SiteNotSupportedError" -> InitStatus("JobScraperError", <<400>>)
      [] cls = "ScrapingFailedError" -> InitStatus("JobScraperError", <<500>>)
      [] cls = "RateLimitExceededError" -> InitStatus("JobScraperError", <<429>>)
      [] cls = "JobParsingError" -> InitStatus("ApplicationException", <<400>>)
      [] cls = "InvalidURLError" -> InitStatus("JobParsingError", NoStatus)
      [] cls = "ParseFailedError" -> InitStatus("JobParsingError", NoStatus)
      [] cls = "DatabaseError" -> InitStatus("ApplicationException", <<500>>)
      [] cls = "EntityNotFoundError" -> 404
      [] cls = "EntityAlreadyExistsError" -> 409
      [] cls = "ValidationError" -> InitStatus("ApplicationException", <<422>>)
      [] cls = "InvalidParameterError" -> InitStatus("ValidationError", NoStatus)
      [] cls = "ExternalServiceError" -> InitStatus("ApplicationException", <<503>>)
      [] cls = "NetworkError" -> InitStatus("ApplicationException", <<503>>)

\* cls(message) or cls(message, status_code=status_code): the object, or the
\* TypeError for a keyword the constructor does not take
Construct(cls, message, status_code) ==
    IF status_code # NoStatus /\ ~AcceptsStatusCode(cls)
    THEN [exc |-> "TypeError", cls |-> cls, message |-> message,
          given |-> status_code, status_code |-> 0]
    ELSE [exc |-> "none", cls |-> cls, message |-> message,
          given |-> status_code, status_code |-> InitStatus(cls, status_code)]

InitExcVars ==
    excLast = [exc |-> "none", cls |-> "none", message |-> "",
               given |-> NoStatus, status_code |-> 0]

\* an exception of the hierarchy is constructed
Raise(cls, message, status_code) ==
    /\ excLast' = Construct(cls, message, status_code)
    /\ UNCHANGED nonExcVars

InitErrors ==
    InitExcVars /\ IdleAuth /\ IdleDd /\ IdleRel /\ IdleSort /\ IdleSrch /\ IdleDb
    /\ IdleTsk /\ IdleFac
    /\ IdleLeg
    /\ IdleJob
    /\ IdleUsr

NextErrors ==
    \E cls \in AppExceptionClasses, message \in MessageArgs, status_code \in StatusArgs :
        Raise(cls, message, status_code)

SpecErrors == InitErrors /\ [][NextErrors]_vars

----------------------------------------------------------------------------
(* Claims about the exception hierarchy (checked under SpecErrors)         *)

\* the status each typed error is said to carry
TypedStatus(cls) ==
    CASE cls \in {"AuthenticationError", "TokenExpiredError", "InvalidTokenError"} -> 401
      [] cls = "AuthorizationError" -> 403
      [] cls = "EntityNotFoundError" -> 404
      [] cls = "EntityAlreadyExistsError" -> 409
      [] cls \in {"ValidationError", "InvalidParameterError"} -> 422
      [] cls \in {"ExternalServiceError", "NetworkError"} -> 503
      [] cls = "DatabaseError" -> 500

TypedErrors ==
    {"AuthenticationError", "TokenExpiredError", "InvalidTokenError",
     "AuthorizationError", "EntityNotFoundError", "EntityAlreadyExistsError",
     "ValidationError", "InvalidParameterError", "ExternalServiceError",
     "NetworkError", "DatabaseError"}

\* C13: each typed application error carries a fixed HTTP status that
\* construction cannot change: 401 for the authentication errors, 403 for
\* AuthorizationError, 404 for EntityNotFoundError, 409 for
\* EntityAlreadyExistsError, 422 for ValidationError and
\* InvalidParameterError, 503 for ExternalServiceError and NetworkError, 500
\* for DatabaseError; a constructor call that names another status fails.
C13_FixedStatus ==
    excLast.cls \in TypedErrors =>
        IF excLast.exc = "none"
        THEN excLast.status_code = TypedStatus(excLast.cls)
        ELSE excLast.exc = "TypeError" /\ excLast.given # NoStatus

\* an EntityNotFoundError was constructed and carries 404, although its base
\* class constructor had set 500
C13_Witness ==
    /\ excLast.cls = "EntityNotFoundError"
    /\ excLast.exc = "none"
    /\ excLast.status_code = 404

----------------------------------------------------------------------------
(* Legacy scraper service: JobScraperService.search_jobs                   *)

\* bound on the number of rows jobspy returns
MaxLegacyRows == 2

\* the keys of site_configs and of jobspy_site_mapping, in dict order
SiteConfigs == <<SiteLinkedin, SiteIndeed, SiteGlassdoor, SiteGoogle>>
JobspySiteMapping ==
    <<SiteLinkedin, SiteIndeed, SiteGlassdoor, SiteGoogle, SiteZipRecruiter>>

\* x in dict
InDict(x, keys) == \E i \in 1..Len(keys) : keys[i] = x

\* [f(x) for x in list if test(x)] for the two tests of search_jobs
InMappingTest(site) == InDict(site, JobspySiteMapping)
NotInMappingTest(site) == ~InDict(site, JobspySiteMapping)
InConfigsTest(site) == InDict(site, SiteConfigs)

LowerAll(sites) == [i \in 1..Len(sites) |-> Lower(sites[i])]

\* the jobspy_sites and custom_sites search_jobs derives from params.site_name,
\* which is a str, a list of str or None
SplitSites(site_name) ==
    CASE site_name.type = "str" ->
            LET site == Lower(site_name.value)
            IN IF InDict(site, JobspySiteMapping)
               THEN [jobspy_sites |-> <<site>>, custom_sites |-> <<>>]
               ELSE [jobspy_sites |-> <<>>, custom_sites |-> <<site>>]
      [] site_name.type = "list" ->
            LET valid == SelectSeq(LowerAll(site_name.value), InConfigsTest)
                sites_to_search == IF valid = <<>> THEN SiteConfigs ELSE valid
            IN [jobspy_sites |-> SelectSeq(sites_to_search, InMappingTest),
                custom_sites |-> SelectSeq(sites_to_search, NotInMappingTest)]
      [] OTHER ->
            [jobspy_sites |-> JobspySiteMapping,
             custom_sites |-> SelectSeq(SiteConfigs, NotInMappingTest)]

TxtAWeek == <<"a", " ", "w", "e", "e", "k">>
TxtAMonth == <<"a", " ", "m", "o", "n", "t", "h">>

\* get_date_value, the sort key of _sort_results_by_date
LegacyGetDateValue(job) ==
    LET date_str == Lower(Get(job, "date_posted", <<>>)) IN
    IF \E term \in {KwJustNow, KwToday, KwHoursAgo} : Contains(term, date_str)
    THEN 0
    ELSE IF Contains(KwYesterday, date_str) THEN 1
    ELSE IF Contains(KwDaysAgo, date_str)
    THEN IF DigitsOf(date_str) = <<>> THEN 1000      \* int('') raises ValueError
         ELSE IntOf(DigitsOf(date_str))
    ELSE IF Contains(KwWeek, date_str)
    THEN 7 * (IF Contains(TxtAWeek, date_str) THEN 1
              ELSE IntOf(IF DigitsOf(date_str) = <<>> THEN <<"1">>
                         ELSE DigitsOf(date_str)))
    ELSE IF Contains(KwMonth, date_str)
    THEN 30 * (IF Contains(TxtAMonth, date_str) THEN 1
               ELSE IntOf(IF DigitsOf(date_str) = <<>> THEN <<"1">>
                          ELSE DigitsOf(date_str)))
    ELSE 9999

\* results.sort(key=get_date_value, reverse=reverse), a stable sort
RECURSIVE LegacyInsertByKey(_, _, _)
LegacyInsertByKey(sorted, job, reverse) ==
    IF sorted = <<>> THEN <<job>>
    ELSE LET goesBefore ==
                 IF reverse
                 THEN LegacyGetDateValue(job) > LegacyGetDateValue(Head(sorted))
                 ELSE LegacyGetDateValue(job) < LegacyGetDateValue(Head(sorted))
         IN IF goesBefore THEN <<job>> \o sorted
            ELSE <<Head(sorted)>> \o LegacyInsertByKey(Tail(sorted), job, reverse)

RECURSIVE LegacySortLoop(_, _, _)
LegacySortLoop(rest, sorted, reverse) ==
    IF rest = <<>> THEN sorted
    ELSE LegacySortLoop(Tail(rest), LegacyInsertByKey(sorted, Head(rest), reverse),
                        reverse)

\* a Python value that is None or a list: None is what a call that ends
\* without a return statement gives
NoneValue == [none |-> TRUE, list |-> <<>>]
ListValue(l) == [none |-> FALSE, list |-> l]

\* JobScraperService._sort_results_by_date(results, sort_order): the list is
\* sorted in place and nothing is returned
SortResultsByDate(results, sort_order) ==
    [results |-> LegacySortLoop(results, <<>>, Lower(sort_order) # TxtAsc),
     returned |-> NoneValue]

\* the rows a jobspy call that does not raise turns into job records; a row
\* without date_posted gets "Recently"
JobspyJobs(rows) ==
    [i \in 1..Len(rows) |->
        [id |-> i, date_posted |-> IF rows[i] = <<>> THEN TxtRecently ELSE rows[i]]]

\* _search_site_page(site, params, 0): site_configs[site_name] raises KeyError
\* for a site without configuration; otherwise the page is scraped
SearchSitePage(site, outcome) ==
    IF ~InDict(site, SiteConfigs) THEN [raised |-> TRUE, results |-> <<>>]
    ELSE outcome

RECURSIVE CustomResults(_, _)
CustomResults(custom_sites, outcome) ==
    IF custom_sites = <<>> THEN <<>>
    ELSE LET page == SearchSitePage(Head(custom_sites), outcome)
         IN (IF page.raised THEN <<>> ELSE page.results)
            \o CustomResults(Tail(custom_sites), outcome)

\* JobScraperService.search_jobs(params), jobspy and custom being what the
\* jobspy call and a custom page scrape do
SearchJobsLegacy(params, jobspy, custom) ==
    LET sites == SplitSites(params.site_name)
        fromJobspy ==
            IF sites.jobspy_sites # <<>> /\ ~jobspy.raised
            THEN JobspyJobs(jobspy.rows) ELSE <<>>
        collected == fromJobspy \o CustomResults(sites.custom_sites, custom)
        wantsSort == params.sort_order # NoSortOrder /\ params.sort_order # <<>>
        call == SortResultsByDate(collected, params.sort_order)
        all_results == IF wantsSort THEN call.returned ELSE ListValue(collected)
    IN [collected |-> collected,
        sorted |-> IF wantsSort THEN call.results ELSE collected,
        \* len(None) raises TypeError, which the outer except turns into []
        returned |-> IF all_results.none THEN <<>> ELSE all_results.list]

\* the site_name values tried: None, "linkedin", "LinkedIn", "seek",
\* ["Indeed", "seek"], []
LegacySiteNames ==
    {[type |-> "none", value |-> <<>>],
     [type |-> "str", value |-> SiteLinkedin],
     [type |-> "str", value |-> <<"L", "i", "n", "k", "e", "d", "I", "n">>],
     [type |-> "str", value |-> SiteSeek],
     [type |-> "list", value |-> <<<<"I", "n", "d", "e", "e", "d">>, SiteSeek>>],
     [type |-> "list", value |-> <<>>]}

\* the sort_order values tried: None, "", "desc" (the default), "asc"
LegacySortOrders == {NoSortOrder, <<>>, TxtDesc, TxtAsc}

\* the date_posted values of jobspy rows: none, "Today", "3 weeks ago",
\* "2024-01-05"
LegacyDates == {<<>>, TxtToday, WeeksText(3), TxtIsoDate}

\* what the jobspy call does
JobspyOutcomes ==
    {[raised |-> TRUE, rows |-> <<>>]}
    \cup {[raised |-> FALSE, rows |-> rows] : rows \in SeqsUpTo(LegacyDates, MaxLegacyRows)}

\* what a custom page scrape does
CustomOutcomes ==
    {[raised |-> TRUE, results |-> <<>>],
     [raised |-> FALSE, results |-> <<[id |-> 0, date_posted |-> TxtYesterday]>>]}

InitLegVars ==
    /\ legParams \in [site_name : LegacySiteNames, sort_order : LegacySortOrders]
    /\ legCollected = <<>>
    /\ legSorted = <<>>
    /\ legOut = <<>>
    /\ legPc = "start"

\* search_jobs runs to its return
LegacySearch(jobspy, custom) ==
    /\ legPc = "start"
    /\ LET r == SearchJobsLegacy(legParams, jobspy, custom)
       IN /\ legCollected' = r.collected
          /\ legSorted' = r.sorted
          /\ legOut' = r.returned
    /\ legPc' = "done"
    /\ UNCHANGED <<legParams, nonLegVars>>

InitLegacy ==
    InitLegVars /\ IdleAuth /\ IdleDd /\ IdleRel /\ IdleSort /\ IdleSrch /\ IdleDb
    /\ IdleTsk /\ IdleFac /\ IdleExc
    /\ IdleJob
    /\ IdleUsr

NextLegacy ==
    \E jobspy \in JobspyOutcomes, custom \in CustomOutcomes : LegacySearch(jobspy, custom)

SpecLegacy == InitLegacy /\ [][NextLegacy]_vars

----------------------------------------------------------------------------
(* Claims about the legacy scraper service (checked under SpecLegacy)      *)

\* C15: when sort_order is set and the scrapers yield at least one job,
\* search_jobs returns a list holding every collected job, ordered by date
\* posted; it returns the empty list only when no job was collected.
C15_SortedResultsReturned ==
    (/\ legPc = "done"
     /\ legParams.sort_order # NoSortOrder
     /\ legParams.sort_order # <<>>) =>
        /\ Len(legOut) = Len(legCollected)
        /\ {legOut[i] : i \in 1..Len(legOut)}
              = {legCollected[i] : i \in 1..Len(legCollected)}
        /\ legOut = legSorted
        /\ legOut = <<>> => legCollected = <<>>

----------------------------------------------------------------------------
(* Job endpoints: who may update and delete a job                          *)

\* bound on the job ids
MaxJobIds == 2

JobIds == 1..MaxJobIds

\* the subjects of the tokens callers present
Subjects == {"auth0|a", "auth0|b"}

\* user_id is nullable: a job created without user_id belongs to nobody
NullUser == "NULL"

\* the notes a job carries: what an update changes
NotesTexts == {"old", "new"}

\* an id under which no job is stored
NoJob == [absent |-> TRUE]

\* an endpoint that takes no token
Anonymous == "anonymous"

\* db.query(Job).filter(Job.id == job_id, Job.user_id == sub).first()
QueryOwnJob(rows, job_id, sub) ==
    IF rows[job_id] # NoJob /\ rows[job_id].user_id = sub THEN rows[job_id] ELSE NoJob

\* db.query(Job).filter(Job.id == job_id).first()
QueryJob(rows, job_id) == rows[job_id]

\* api/routes.py update_job: the 404 raised inside the try is re-raised by
\* `except HTTPException: raise`; a failing commit is rolled back
ApiUpdateJob(rows, sub, job_id, notes, dbOk) ==
    LET db_job == QueryOwnJob(rows, job_id, sub)
        raised == IF db_job = NoJob THEN "HTTPException"
                  ELSE IF ~dbOk THEN "OperationalError" ELSE "none"
        escaped == Escapes(<< <<"HTTPException", "reraise">>,
                              <<"Exception", "HTTPException">> >>, raised)
    IN IF raised = "HTTPException" THEN [rows |-> rows, code |-> 404]
       ELSE IF escaped # "none" THEN [rows |-> rows, code |-> 500]
       ELSE [rows |-> [rows EXCEPT ![job_id].notes = notes], code |-> 200]

\* api/routes.py delete_job
ApiDeleteJob(rows, sub, job_id, dbOk) ==
    LET db_job == QueryOwnJob(rows, job_id, sub)
        raised == IF db_job = NoJob THEN "HTTPException"
                  ELSE IF ~dbOk THEN "OperationalError" ELSE "none"
    IN IF raised = "HTTPException" THEN [rows |-> rows, code |-> 404]
       ELSE IF raised # "none" THEN [rows |-> rows, code |-> 500]
       ELSE [rows |-> [rows EXCEPT ![job_id] = NoJob], code |-> 200]

\* main.py update_job: the 404 is raised before the try
OwnerUpdateJob(rows, sub, job_id, notes, dbOk) ==
    LET db_job == QueryOwnJob(rows, job_id, sub)
    IN IF db_job = NoJob THEN [rows |-> rows, code |-> 404]
       ELSE IF ~dbOk THEN [rows |-> rows, code |-> 500]
       ELSE [rows |-> [rows EXCEPT ![job_id].notes = notes], code |-> 200]

\* main.py delete_job: no token is asked for and the query filters on the id
\* alone; the HTTPException(404) is raised inside the try, whose only
\* clause, `except Exception`, rolls back and raises HTTPException(500)
AnyoneDeleteJob(rows, job_id, dbOk) ==
    LET db_job == QueryJob(rows, job_id)
        raised == IF db_job = NoJob THEN "HTTPException"
                  ELSE IF ~dbOk THEN "OperationalError" ELSE "none"
    IN IF raised # "none" THEN [rows |-> rows, code |-> 500]
       ELSE [rows |-> [rows EXCEPT ![job_id] = NoJob], code |-> 200]

InitJobVars ==
    /\ jobRows = [id \in JobIds |-> NoJob]
    /\ jobLast = [op |-> "none", sub |-> Anonymous, job_id |-> 1, code |-> 200,
                  before |-> [id \in JobIds |-> NoJob]]

\* a create_job request stores a job for user_id under a fresh id
JobCreated(job_id, user_id) ==
    /\ jobRows[job_id] = NoJob
    /\ jobRows' = [jobRows EXCEPT ![job_id] = [user_id |-> user_id, notes |-> "old"]]
    /\ jobLast' = [op |-> "create_job", sub |-> user_id, job_id |-> job_id,
                   code |-> 200, before |-> jobRows]
    /\ UNCHANGED nonJobVars

\* PUT /jobs/{job_id} of api/routes.py by the caller with subject sub
JobApiUpdate(sub, job_id, notes, dbOk) ==
    /\ LET r == ApiUpdateJob(jobRows, sub, job_id, notes, dbOk)
       IN /\ jobRows' = r.rows
          /\ jobLast' = [op |-> "api.update_job", sub |-> sub, job_id |-> job_id,
                         code |-> r.code, before |-> jobRows]
    /\ UNCHANGED nonJobVars

\* DELETE /jobs/{job_id} of api/routes.py by the caller with subject sub
JobApiDelete(sub, job_id, dbOk) ==
    /\ LET r == ApiDeleteJob(jobRows, sub, job_id, dbOk)
       IN /\ jobRows' = r.rows
          /\ jobLast' = [op |-> "api.delete_job", sub |-> sub, job_id |-> job_id,
                         code |-> r.code, before |-> jobRows]
    /\ UNCHANGED nonJobVars

\* PUT /api/jobs/{job_id} of main.py by the caller with subject sub
JobMainUpdate(sub, job_id, notes, dbOk) ==
    /\ LET r == OwnerUpdateJob(jobRows, sub, job_id, notes, dbOk)
       IN /\ jobRows' = r.rows
          /\ jobLast' = [op |-> "main.update_job", sub |-> sub, job_id |-> job_id,
                         code |-> r.code, before |-> jobRows]
    /\ UNCHANGED nonJobVars

\* DELETE /api/jobs/{job_id} of main.py, by anyone
JobMainDelete(job_id, dbOk) ==
    /\ LET r == AnyoneDeleteJob(jobRows, job_id, dbOk)
       IN /\ jobRows' = r.rows
          /\ jobLast' = [op |-> "main.delete_job", sub |-> Anonymous,
                         job_id |-> job_id, code |-> r.code, before |-> jobRows]
    /\ UNCHANGED nonJobVars

InitJobs ==
    InitJobVars /\ IdleAuth /\ IdleDd /\ IdleRel /\ IdleSort /\ IdleSrch /\ IdleDb
    /\ IdleTsk /\ IdleFac /\ IdleExc /\ IdleLeg
    /\ IdleUsr

NextJobs ==
    \/ \E job_id \in JobIds, user_id \in Subjects \cup {NullUser} :
          JobCreated(job_id, user_id)
    \/ \E sub \in Subjects, job_id \in JobIds, notes \in NotesTexts, dbOk \in BOOLEAN :
          JobApiUpdate(sub, job_id, notes, dbOk)
    \/ \E sub \in Subjects, job_id \in JobIds, dbOk \in BOOLEAN :
          JobApiDelete(sub, job_id, dbOk)
    \/ \E sub \in Subjects, job_id \in JobIds, notes \in NotesTexts, dbOk \in BOOLEAN :
          JobMainUpdate(sub, job_id, notes, dbOk)
    \/ \E job_id \in JobIds, dbOk \in BOOLEAN : JobMainDelete(job_id, dbOk)

SpecJobs == InitJobs /\ [][NextJobs]_vars

----------------------------------------------------------------------------
(* Claims about the job endpoints (checked under SpecJobs)                 *)

\* C22: no job endpoint modifies or deletes a job whose user_id differs from
\* the caller's subject: an update or delete request for a job owned by
\* another user, or by nobody, is answered 404 and leaves the job unchanged.
C22_OnlyOwnerChangesJob ==
    (/\ jobLast.op \in {"api.update_job", "api.delete_job", "main.update_job",
                        "main.delete_job"}
     /\ jobLast.before[jobLast.job_id] # NoJob
     /\ jobLast.before[jobLast.job_id].user_id # jobLast.sub) =>
        /\ jobLast.code = 404
        /\ jobRows[jobLast.job_id] = jobLast.before[jobLast.job_id]

\* C23: deleting a job id that does not exist is answered 404, not with a
\* server error, and leaves the stored jobs unchanged.
C23_DeleteMissingIs404 ==
    (/\ jobLast.op \in {"api.delete_job", "main.delete_job"}
     /\ jobLast.before[jobLast.job_id] = NoJob) =>
        /\ jobLast.code = 404
        /\ jobRows = jobLast.before

----------------------------------------------------------------------------
(* UserRepository.get_or_create, called concurrently                       *)

\* bound on the number of concurrent get_or_create calls
MaxCalls == 3

Calls == 1..MaxCalls

\* the Auth0 ids the calls ask for
AuthIds == {"auth0|a", "auth0|b"}

\* a call that has not started
IdleCall == [pc |-> "idle", auth_id |-> "none", exc |-> "none"]

\* get_by_auth_id: db.query(User).filter(User.id == auth_id).first(), on the
\* rows committed when the query runs
GetByAuthId(table, auth_id) == auth_id \in table

\* UserRepository.create: add, commit, refresh. User.id is the primary key:
\* the commit of a user whose id is stored raises IntegrityError, which the
\* `except Exception` clause rolls back and raises as DatabaseError
UserCreate(table, auth_id) ==
    LET raised == IF auth_id \in table THEN "IntegrityError" ELSE "none"
        escaped == Escapes(<< <<"Exception", "DatabaseError">> >>, raised)
    IN [table |-> IF raised = "none" THEN table \cup {auth_id} ELSE table,
        exc |-> escaped]

\* get_or_create after its query found no user: create(user_data); the
\* `except Exception` clause of get_or_create raises what create raised as a
\* DatabaseError again
GetOrCreateCreate(table, auth_id) ==
    LET r == UserCreate(table, auth_id)
    IN [table |-> r.table,
        exc |-> Escapes(<< <<"Exception", "DatabaseError">> >>, r.exc)]

InitUsrVars ==
    /\ usrTable = {}
    /\ usrCalls = [c \in Calls |-> IdleCall]

\* call c starts on a session of its own: the query of get_by_auth_id, and
\* `return user` when it finds one
UsrQuery(c, auth_id) ==
    /\ usrCalls[c].pc = "idle"
    /\ usrCalls' = [usrCalls EXCEPT ![c] =
          [pc |-> IF GetByAuthId(usrTable, auth_id) THEN "returned" ELSE "creating",
           auth_id |-> auth_id, exc |-> "none"]]
    /\ UNCHANGED <<usrTable, nonUsrVars>>

\* call c, whose query found no user, creates one
UsrCreate(c) ==
    /\ usrCalls[c].pc = "creating"
    /\ LET r == GetOrCreateCreate(usrTable, usrCalls[c].auth_id)
       IN /\ usrTable' = r.table
          /\ usrCalls' = [usrCalls EXCEPT ![c].pc =
                             IF r.exc = "none" THEN "returned" ELSE "raised",
                                          ![c].exc = r.exc]
    /\ UNCHANGED nonUsrVars

InitUsers ==
    InitUsrVars /\ IdleAuth /\ IdleDd /\ IdleRel /\ IdleSort /\ IdleSrch /\ IdleDb
    /\ IdleTsk /\ IdleFac /\ IdleExc /\ IdleLeg /\ IdleJob

NextUsers ==
    \/ \E c \in Calls, auth_id \in AuthIds : UsrQuery(c, auth_id)
    \/ \E c \in Calls : UsrCreate(c)

SpecUsers == InitUsers /\ [][NextUsers]_vars

----------------------------------------------------------------------------
(* Claims about get_or_create (checked under SpecUsers)                    *)

\* C24: after any interleaving of concurrent get_or_create calls, each on
\* its own session, every call that has ended has returned the user with its
\* auth id, which is stored (once: the id is the primary key), and none has
\* raised.
C24_EveryCallReturnsTheUser ==
    \A c \in Calls :
        usrCalls[c].pc \in {"returned", "raised"} =>
            /\ usrCalls[c].pc = "returned"
            /\ usrCalls[c].exc = "none"
            /\ usrCalls[c].auth_id \in usrTable

====
